---- MODULE Spec2Model ----
(***************************************************************************)
(* Skill resource lifecycle manager of Kode-agent-sdk:                     *)
(*   - OperationQueue (serializing FIFO task queue),                       *)
(*   - SkillsManagementManager (create / rename / edit / delete / restore  *)
(*     wrapped as queued tasks and awaited by bounded polling),            *)
(*   - the directory trees the task bodies act on.                         *)
(* JavaScript runs one synchronous block at a time: every action below is  *)
(* one such block, from one await (or call) to the next await.             *)
(***************************************************************************)
EXTENDS Integers, Sequences, FiniteSets, TLC

\* ------------------------------------------------------------------ bounds
MaxTasks == 3        \* tasks enqueued in one run of the queue-level model
MaxClock == 2        \* distinct instants new Date() can return
MaxCalls == 2        \* manager calls issued in one run of the manager model
MaxPolls == 2        \* sleeps waitForTask's budget allows (300 in the program)
pollInterval == 100  \* waitForTask: const pollInterval = 100

\* waitForTask: const maxWaitTime = 30000, scaled to MaxPolls sleeps
maxWaitTime == MaxPolls * pollInterval

\* --------------------------------------------------------------- constants
\* OperationStatus
PENDING == "pending"
PROCESSING == "processing"
COMPLETED == "completed"
FAILED == "failed"

\* OperationType
CREATE == "create"
RENAME == "rename"
EDIT == "edit"
DELETE == "delete"
RESTORE == "restore"

Unset == 0                        \* an optional field that was never assigned
NoError == [msg |-> "", origin |-> 0]

\* Values a task body of the queue-level model can throw.
ThrownValues == {"Task failed", "boom"}

VARIABLES
  queue,        \* OperationQueue.queue: ids of the tasks not yet dequeued
  processing,   \* OperationQueue.processing
  tasks,        \* every OperationTask object created so far, by id
  now,          \* the instant new Date() returns
  calls,        \* the SkillsManagementManager call that created task i, by id
  fs,           \* the directory trees: [online, archive, root]
  archivedDir,  \* where the constructor put the archive root
  ref,          \* the trees and outcomes of the bodies run one at a time
  mtime,        \* the modification time of each directory of the trees
  io,           \* the calls made to a SandboxFileManager directly, oldest first
  snap          \* the objects getQueueStatus() returned and the caller keeps

vars == <<queue, processing, tasks, now, calls, fs, archivedDir, ref, mtime, io, snap>>
mgrvars == <<calls, fs, archivedDir, ref, mtime>>

TaskIds == DOMAIN tasks

Terminal(st) == st \in {COMPLETED, FAILED}

\* ---------------------------------------------------------------- strings
\* A string is the sequence of its characters.
Digits == {"0", "1", "2", "3", "4", "5", "6", "7", "8", "9"}
Letters == {"a", "b", "c", "T", "Z"}
NameChars == Letters \cup Digits \cup {"_", "-"}

\* s.replace(/[:.]/g, '-')
ReplaceColonsAndDots(s) ==
  [i \in 1..Len(s) |-> IF s[i] \in {":", "."} THEN "-" ELSE s[i]]

DigitChar(d) ==
  CASE d = 0 -> "0" [] d = 1 -> "1" [] d = 2 -> "2" [] d = 3 -> "3"
    [] d = 4 -> "4" [] d = 5 -> "5" [] d = 6 -> "6" [] d = 7 -> "7"
    [] d = 8 -> "8" [] d = 9 -> "9"

\* new Date().toISOString() at instant k: YYYY-MM-DDTHH:MM:SS.mmmZ.  The
\* instants of one run differ in their milliseconds only.
toISOString(k) ==
  <<"2", "0", "2", "6", "-", "0", "1", "-", "1", "5", "T",
    "0", "5", ":", "0", "5", ":", "0", "1", ".">>
  \o <<DigitChar((k \div 100) % 10), DigitChar((k \div 10) % 10), DigitChar(k % 10)>>
  \o <<"Z">>

\* "#" stands for \d in a pattern; every other entry is that character.
TimestampPattern ==
  <<"#", "#", "#", "#", "-", "#", "#", "-", "#", "#", "T",
    "#", "#", "-", "#", "#", "-", "#", "#">>
TimestampPatternZ == TimestampPattern \o <<"Z">>
TimestampPatternMsZ == TimestampPattern \o <<"-", "#", "#", "#", "Z">>

MatchesPattern(s, pat) ==
  /\ Len(s) = Len(pat)
  /\ \A i \in 1..Len(pat):
       IF pat[i] = "#" THEN s[i] \in Digits ELSE s[i] = pat[i]

\* \d{4}-\d{2}-\d{2}T\d{2}-\d{2}-\d{2}(?:-\d{3})?Z
IsEncodedTimestamp(s) ==
  MatchesPattern(s, TimestampPatternZ) \/ MatchesPattern(s, TimestampPatternMsZ)

\* The positions i at which s = prefix(1..i-1) \o "_" \o <encoded timestamp>,
\* with a prefix of at least one character.
SuffixSplits(s) ==
  {i \in 2..Len(s) : s[i] = "_" /\ IsEncodedTimestamp(SubSeq(s, i + 1, Len(s)))}

\* The number the two digits at positions i and i + 1 of s write.
TwoDigits(s, i) ==
  10 * (CHOOSE d \in 0..9: DigitChar(d) = s[i])
  + (CHOOSE d \in 0..9: DigitChar(d) = s[i + 1])

\* Whether new Date(`${date}T${hour}:${min}:${sec}[.${ms}]Z`) is a valid date
\* for the encoded timestamp ts: the month, the day of the month, the hour,
\* the minute and the second are in range.  toISOString() of an invalid date
\* throws a RangeError.
IsValidDate(ts) ==
  /\ TwoDigits(ts, 6) \in 1..12
  /\ TwoDigits(ts, 9) \in 1..31
  /\ TwoDigits(ts, 12) \in 0..23
  /\ TwoDigits(ts, 15) \in 0..59
  /\ TwoDigits(ts, 18) \in 0..59

\* Mutant of MatchArchivedName: the name ends at its first underscore.
MatchArchivedName_firstUnderscore(s) ==
  IF SuffixSplits(s) = {} THEN <<>>
  ELSE LET i == CHOOSE j \in 2..Len(s):
                  s[j] = "_" /\ \A k \in 2..(j - 1): s[k] # "_"
       IN <<SubSeq(s, 1, i - 1), SubSeq(s, i + 1, Len(s))>>

\* listArchivedSkills: entry.name.match(/^(.+?)_(<timestamp>Z)$/); the lazy
\* group takes the shortest prefix.  <<>> stands for "no match".
MatchArchivedName(s) ==
  IF SuffixSplits(s) = {} THEN <<>>
  ELSE LET i == CHOOSE j \in SuffixSplits(s): \A k \in SuffixSplits(s): j <= k
       IN <<SubSeq(s, 1, i - 1), SubSeq(s, i + 1, Len(s))>>

\* Mutant of StripTimestamp: the suffix stays.
StripTimestamp_kept(s) == s

\* doRestoreSkill: archivedSkillName.replace(/_<timestamp>Z$/, '')
StripTimestamp(s) ==
  LET cuts == {i \in 1..Len(s) :
                 s[i] = "_" /\ IsEncodedTimestamp(SubSeq(s, i + 1, Len(s)))}
  IN IF cuts = {} THEN s
     ELSE SubSeq(s, 1, (CHOOSE j \in cuts: \A k \in cuts: j <= k) - 1)

MaxNameLength == 50

\* Mutant of isValidSkillName: no upper limit on the length.
isValidSkillName_noLimit(name) ==
  /\ \A i \in 1..Len(name): name[i] \in NameChars
  /\ Len(name) > 0

\* isValidSkillName: /^[a-zA-Z0-9_-]+$/ and length 1..50
isValidSkillName(name) ==
  /\ \A i \in 1..Len(name): name[i] \in NameChars
  /\ Len(name) > 0
  /\ Len(name) <= MaxNameLength

\* doDeleteSkill: `${skillName}_${timestamp}`
ArchivedName(skillName, k) ==
  skillName \o <<"_">> \o ReplaceColonsAndDots(toISOString(k))

\* ------------------------------------------------------------------ paths
\* A path is the sequence of its segments; an absolute path starts with "/".
isAbsolute(p) == Len(p) > 0 /\ p[1] = "/"

RECURSIVE normalizeFrom(_, _, _)
normalizeFrom(p, i, acc) ==
  IF i > Len(p) THEN acc
  ELSE IF p[i] = "." THEN normalizeFrom(p, i + 1, acc)
  ELSE IF p[i] = ".."
       THEN IF Len(acc) > 0 /\ acc[Len(acc)] \notin {"..", "/"}
            THEN normalizeFrom(p, i + 1, SubSeq(acc, 1, Len(acc) - 1))
            ELSE IF Len(acc) > 0 /\ acc[Len(acc)] = "/"
                 THEN normalizeFrom(p, i + 1, acc)
                 ELSE normalizeFrom(p, i + 1, Append(acc, ".."))
  ELSE normalizeFrom(p, i + 1, Append(acc, p[i]))

\* path.normalize
normalize(p) ==
  LET n == normalizeFrom(p, 1, <<>>) IN IF n = <<>> THEN <<".">> ELSE n

\* normalizedPath.startsWith('..') || path.isAbsolute(normalizedPath)
escapesBase(np) == (Len(np) > 0 /\ np[1] = "..") \/ isAbsolute(np)

\* ------------------------------------------------------------ directories
Put(f, k, v) == [x \in DOMAIN f \cup {k} |-> IF x = k THEN v ELSE f[x]]
Remove(f, k) == [x \in DOMAIN f \ {k} |-> f[x]]

\* A file is the sequence of its lines; a line is a key and a value.
Fence == [k |-> "---", v |-> <<>>]
NameLine(n) == [k |-> "name", v |-> n]
DescLine(d) == [k |-> "description", v |-> d]
TextLine(x) == [k |-> "text", v |-> x]

SkillMd == <<"SKILL.md">>
SubDirs == {"references", "scripts", "assets"}

EmptyDir == [subdirs |-> {}, files |-> <<>>]
EmptyFs == [online |-> <<>>, archive |-> <<>>, root |-> FALSE]

IsEmptyDir(d) == d.subdirs = {} /\ DOMAIN d.files = {}

\* generateSkillMd(options)
generateSkillMd(name, description) ==
  <<Fence, NameLine(name), DescLine(description), Fence, TextLine(name)>>

\* A directory of one of the two trees.
NoLoc == [kind |-> "none", dir |-> <<>>]
OnlineLoc(d) == [kind |-> "online", dir |-> d]
ArchiveLoc(a) == [kind |-> "archive", dir |-> a]

DirExists(f, l) ==
  \/ l.kind = "online" /\ l.dir \in DOMAIN f.online
  \/ l.kind = "archive" /\ l.dir \in DOMAIN f.archive

DirAt(f, l) == IF l.kind = "online" THEN f.online[l.dir] ELSE f.archive[l.dir]

PutDir(f, l, d) ==
  IF l.kind = "online" THEN [f EXCEPT !.online = Put(f.online, l.dir, d)]
  ELSE [f EXCEPT !.archive = Put(f.archive, l.dir, d), !.root = TRUE]

RemoveDir(f, l) ==
  IF l.kind = "online" THEN [f EXCEPT !.online = Remove(f.online, l.dir)]
  ELSE [f EXCEPT !.archive = Remove(f.archive, l.dir)]

\* fs.rename(from, to) of a directory: [fs, err].  Renaming a path to itself
\* does nothing; an existing target is replaced only if it is empty.
fsRename(f, from, to) ==
  IF ~DirExists(f, from) THEN [fs |-> f, err |-> "ENOENT"]
  ELSE IF from = to THEN [fs |-> f, err |-> ""]
  ELSE IF DirExists(f, to) /\ ~IsEmptyDir(DirAt(f, to))
       THEN [fs |-> f, err |-> "ENOTEMPTY"]
  ELSE [fs |-> PutDir(RemoveDir(f, from), to, DirAt(f, from)), err |-> ""]

\* The directories of the two trees.
Locs(f) ==
  {OnlineLoc(d) : d \in DOMAIN f.online} \cup {ArchiveLoc(a) : a \in DOMAIN f.archive}

\* The names of the entries of directory d itself.
Entries(d) == d.subdirs \cup {p[1] : p \in DOMAIN d.files}

\* fs.stat(dir).mtime after a step that took the trees from f to f2 at
\* instant k: a directory whose own entries changed, or a new one, is stamped
\* k; a directory that was renamed keeps the time it had; rewriting a file
\* that exists, or changing a subdirectory, leaves it alone.
touched(m, f, f2, k) ==
  LET gone == Locs(f) \ Locs(f2) IN
  [l \in Locs(f2) |->
     IF gone # {} /\ (l \notin Locs(f) \/ DirAt(f, l) # DirAt(f2, l))
                 /\ \E g \in gone: DirAt(f, g) = DirAt(f2, l)
     THEN m[CHOOSE g \in gone: DirAt(f, g) = DirAt(f2, l)]
     ELSE IF l \notin Locs(f) THEN k
     ELSE IF Entries(DirAt(f2, l)) # Entries(DirAt(f, l)) THEN k
     ELSE m[l]]

\* ------------------------------------------------- SkillsManager (reader)
\* The front matter of a manifest: the lines between its first line, a
\* fence, and the next fence.
FrontMatterEnd(m) ==
  IF Len(m) >= 2 /\ m[1] = Fence /\ \E j \in 2..Len(m): m[j] = Fence
  THEN CHOOSE j \in 2..Len(m): m[j] = Fence /\ \A i \in 2..(j - 1): m[i] # Fence
  ELSE 0

NoName == <<>>

\* The name a manifest declares, NoName if it has no valid front matter.
ManifestName(m) ==
  LET e == FrontMatterEnd(m)
      idx == {i \in 2..(e - 1): m[i].k = "name"}
  IN IF e = 0 \/ idx = {} THEN NoName
     ELSE m[CHOOSE i \in idx: \A j \in idx: i <= j].v

DirName(d) ==
  IF SkillMd \in DOMAIN d.files THEN ManifestName(d.files[SkillMd]) ELSE NoName

\* The directories a recursive scan of the resources root finds: the online
\* ones, and the archived ones when the archive root lies inside it.
Scanned(f, cfg) ==
  {OnlineLoc(d) : d \in DOMAIN f.online}
  \cup (IF cfg = "outside" THEN {} ELSE {ArchiveLoc(a) : a \in DOMAIN f.archive})

\* loadSkillContent(name): the scanned skills whose manifest declares name.
LoadCandidates(f, cfg, name) ==
  {l \in Scanned(f, cfg) : DirName(DirAt(f, l)) # NoName /\ DirName(DirAt(f, l)) = name}

\* The metadata loadSkillContent may return: one candidate, or null (NoLoc).
Loads(f, cfg, name) ==
  IF LoadCandidates(f, cfg, name) = {} THEN {NoLoc} ELSE LoadCandidates(f, cfg, name)

\* getSkillsMetadata(): the metadata of every scanned skill.
getSkillsMetadata(f, cfg) ==
  {[name |-> DirName(DirAt(f, l)), baseDir |-> l] :
     l \in {x \in Scanned(f, cfg) : DirName(DirAt(f, x)) # NoName}}

\* ------------------------------------------- SkillsManagementManager reads
\* baseDir.includes('/.archived/') || baseDir.includes('\\.archived\\')
inDotArchived(l, cfg) == l.kind = "archive" /\ cfg = "default"

\* listSkills()
listSkills(f, cfg) ==
  {s \in getSkillsMetadata(f, cfg) : ~inDotArchived(s.baseDir, cfg)}

\* An entry of the archive root that is a file, not a directory.
PlainFile == [subdirs |-> {}, files |-> <<>>, file |-> TRUE]

\* entry.isDirectory()
isDirectory(d) == "file" \notin DOMAIN d

\* The entries of the archive root the loop of listArchivedSkills gets past
\* its three `continue`s with: directories that hold SKILL.md and whose name
\* matches the pattern.
ArchivedCandidates(f) ==
  {x \in DOMAIN f.archive :
     /\ isDirectory(f.archive[x])
     /\ SkillMd \in DOMAIN f.archive[x].files
     /\ MatchArchivedName(x) # <<>>}

\* Mutant of listArchivedSkills: directories without SKILL.md are listed too.
listArchivedSkills_noManifestCheck(f) ==
  IF ~f.root THEN {}
  ELSE IF \E x \in ArchivedCandidates(f): ~IsValidDate(MatchArchivedName(x)[2])
       THEN {}
  ELSE {[originalName |-> MatchArchivedName(a)[1], archivedName |-> a] :
          a \in {x \in DOMAIN f.archive :
                   isDirectory(f.archive[x]) /\ MatchArchivedName(x) # <<>>}}

\* listArchivedSkills(), as a set: nothing if the archive root does not
\* exist; nothing either if new Date(..).toISOString() throws for one of the
\* entries, which the catch block around the loop turns into `return []`.
listArchivedSkills(f) ==
  IF ~f.root THEN {}
  ELSE IF \E x \in ArchivedCandidates(f): ~IsValidDate(MatchArchivedName(x)[2])
       THEN {}
  ELSE {[originalName |-> MatchArchivedName(a)[1], archivedName |-> a] :
          a \in ArchivedCandidates(f)}

\* The timestamp of an archive name as listArchivedSkills decodes it:
\* `${date}T${hour}:${min}:${sec}.${ms}Z`, and new Date(..).toISOString(),
\* which writes the milliseconds out when the name has none.
DecodeTimestamp(ts) ==
  LET hms == [i \in 1..19 |-> IF i \in {14, 17} THEN ":" ELSE ts[i]] IN
  IF Len(ts) = Len(TimestampPatternMsZ)
  THEN hms \o <<".">> \o SubSeq(ts, 21, 24)
  ELSE hms \o <<".", "0", "0", "0", "Z">>

\* The order of two characters in a comparison of ISO timestamps.
CharRank(ch) ==
  CASE ch = "-" -> 1 [] ch = "." -> 2 [] ch = ":" -> 3
    [] ch \in Digits -> 10 + (CHOOSE d \in 0..9: DigitChar(d) = ch)
    [] ch = "T" -> 30 [] ch = "Z" -> 31
    [] OTHER -> 40

\* a.localeCompare(b): negative, zero or positive
localeCompare(a, b) ==
  LET n == IF Len(a) < Len(b) THEN Len(a) ELSE Len(b)
      diff == {i \in 1..n : a[i] # b[i]}
  IN IF diff = {} THEN Len(a) - Len(b)
     ELSE LET i == CHOOSE x \in diff: \A y \in diff: x <= y
          IN CharRank(a[i]) - CharRank(b[i])

\* archivedAt of the archive entry a: stat?.mtime?.toISOString() || archivedAt
archivedAtOf(m, a) ==
  IF ArchiveLoc(a) \in DOMAIN m THEN toISOString(m[ArchiveLoc(a)])
  ELSE DecodeTimestamp(MatchArchivedName(a)[2])

\* What listArchivedSkills() may return: its entries with their archivedAt,
\* sorted by b.archivedAt.localeCompare(a.archivedAt); entries that compare
\* equal stay in the order readdir gave them, which is any order.
listArchivedSkillsSorted(f, m) ==
  LET es == {[originalName |-> e.originalName, archivedName |-> e.archivedName,
              archivedAt |-> archivedAtOf(m, e.archivedName)] :
               e \in listArchivedSkills(f)}
      n == Cardinality(es)
  IN {r \in [1..n -> es] :
        /\ \A i, j \in 1..n: i # j => r[i] # r[j]
        /\ \A i, j \in 1..n:
             i < j => localeCompare(r[j].archivedAt, r[i].archivedAt) <= 0}

\* getSkillFileTree(skillName), l being what loadSkillContent returned:
\* [err, tree]
getSkillFileTree(f, cfg, l) ==
  IF l = NoLoc THEN [err |-> "Skill not found", tree |-> EmptyDir]
  ELSE IF inDotArchived(l, cfg)
       THEN [err |-> "Cannot get file tree for archived skill", tree |-> EmptyDir]
  ELSE [err |-> "", tree |-> DirAt(f, l)]

\* getSkillInfo(skillName), l being what its loadSkillContent returned and l2
\* what the one of getSkillFileTree returned: [err, info]; a null result is
\* an info whose baseDir is NoLoc.
getSkillInfo(f, cfg, l, l2) ==
  IF l = NoLoc THEN [err |-> "", info |-> [baseDir |-> NoLoc, files |-> EmptyDir]]
  ELSE IF inDotArchived(l, cfg)
       THEN [err |-> "Cannot get info for archived skill",
             info |-> [baseDir |-> NoLoc, files |-> EmptyDir]]
  ELSE IF getSkillFileTree(f, cfg, l2).err # ""
       THEN [err |-> getSkillFileTree(f, cfg, l2).err,
             info |-> [baseDir |-> NoLoc, files |-> EmptyDir]]
  ELSE [err |-> "", info |-> [baseDir |-> l, files |-> getSkillFileTree(f, cfg, l2).tree]]

\* ------------------------------------------- SandboxFileManager.writeFile
\* sandbox.fs.write(relativePath, content) in a sandbox whose workDir is the
\* directory d: refuses a path outside d, creates the intermediate
\* directories, writes the file.  [dir, err]
sandboxWrite(d, np, content) ==
  IF escapesBase(np) THEN [dir |-> d, err |-> "Path outside sandbox"]
  ELSE IF np = <<".">> \/ (Len(np) = 1 /\ np[1] \in d.subdirs)
       THEN [dir |-> d, err |-> "EISDIR"]
  ELSE [dir |-> [subdirs |-> d.subdirs \cup (IF Len(np) > 1 THEN {np[1]} ELSE {}),
                 files |-> Put(d.files, np, content)],
        err |-> ""]

\* ------------------------------------------------------ SandboxFileManager
\* Mutant of createSkillSandbox: the boundary is not enforced.
createSkillSandbox_unenforced(base) == [workDir |-> base, enforceBoundary |-> FALSE]

\* createSkillSandbox(skillBaseDir): the configuration of the sandbox
createSkillSandbox(base) == [workDir |-> base, enforceBoundary |-> TRUE]

OutsideSandbox == "Path outside sandbox"
Elsewhere == [kind |-> "elsewhere", dir |-> <<>>]

\* Where a sandbox that enforces nothing ends up with the normalized path np
\* from workDir: in the directory itself, in a sibling directory, or
\* somewhere that is not one of the trees.  [at, path]
Resolve(base, np) ==
  IF isAbsolute(np) THEN [at |-> Elsewhere, path |-> np]
  ELSE IF np[1] # ".." THEN [at |-> base, path |-> np]
  ELSE IF Len(np) >= 3 /\ np[2] # ".."
       THEN [at |-> [kind |-> base.kind, dir |-> <<np[2]>>], path |-> SubSeq(np, 3, Len(np))]
  ELSE [at |-> Elsewhere, path |-> np]

\* sandbox.fs.read(path): [err, at, read]; at is the directory in which a file
\* was looked up, NoLoc if none was.
sandboxRead(sb, f, p) ==
  LET np == normalize(p)
      r == Resolve(sb.workDir, np)
  IN IF sb.enforceBoundary /\ escapesBase(np)
     THEN [err |-> OutsideSandbox, at |-> NoLoc, read |-> <<>>]
     ELSE IF r.at # Elsewhere /\ DirExists(f, r.at) /\ r.path \in DOMAIN DirAt(f, r.at).files
          THEN [err |-> "", at |-> r.at, read |-> DirAt(f, r.at).files[r.path]]
     ELSE [err |-> "ENOENT", at |-> r.at, read |-> <<>>]

\* sandbox.fs.write(path, content) on the trees: [fs, err, at]
sandboxWriteAt(sb, f, p, content) ==
  LET np == normalize(p)
      r == Resolve(sb.workDir, np)
  IN IF sb.enforceBoundary /\ escapesBase(np)
     THEN [fs |-> f, err |-> OutsideSandbox, at |-> NoLoc]
     ELSE IF r.at = Elsewhere \/ ~DirExists(f, r.at)
          THEN [fs |-> f, err |-> "", at |-> r.at]
     ELSE LET w == sandboxWrite(DirAt(f, r.at), r.path, content) IN
          IF w.err # "" THEN [fs |-> f, err |-> w.err, at |-> r.at]
          ELSE [fs |-> PutDir(f, r.at, w.dir), err |-> "", at |-> r.at]

\* readFile(skillBaseDir, relativePath): [fs, err, at, read]
readFile(f, base, p) ==
  LET r == sandboxRead(createSkillSandbox(base), f, p) IN
  [fs |-> f, err |-> r.err, at |-> r.at, read |-> r.read]

\* writeFile(skillBaseDir, relativePath, content)
writeFile(f, base, p, content) ==
  LET r == sandboxWriteAt(createSkillSandbox(base), f, p, content) IN
  [fs |-> r.fs, err |-> r.err, at |-> r.at, read |-> <<>>]

\* createDir(skillBaseDir, relativePath): writes
\* path.join(relativePath, '.gitkeep')
createDir(f, base, p) ==
  LET r == sandboxWriteAt(createSkillSandbox(base), f, p \o <<".gitkeep">>, <<>>) IN
  [fs |-> r.fs, err |-> r.err, at |-> r.at, read |-> <<>>]

\* fs.writeFile(path.join(baseDir, normalizedPath), content): the parent
\* directory has to exist.  [dir, err]
directWrite(d, np, content) ==
  IF np = <<".">> \/ (Len(np) = 1 /\ np[1] \in d.subdirs)
  THEN [dir |-> d, err |-> "EISDIR"]
  ELSE IF Len(np) > 1 /\ ~(Len(np) = 2 /\ np[1] \in d.subdirs)
       THEN [dir |-> d, err |-> "ENOENT"]
  ELSE [dir |-> [d EXCEPT !.files = Put(d.files, np, content)], err |-> ""]

\* content.replace(/^name:\s*.+$/m, `name: ${newName}`): the first name line
\* is rewritten; if its value is empty, \s* runs over the line break and the
\* match takes the following line too.
replaceNameLine(m, newName) ==
  LET idx == {i \in 1..Len(m): m[i].k = "name"} IN
  IF idx = {} THEN m
  ELSE LET i == CHOOSE x \in idx: \A y \in idx: x <= y IN
       IF m[i].v # <<>> THEN [m EXCEPT ![i] = NameLine(newName)]
       ELSE IF i < Len(m)
            THEN SubSeq(m, 1, i - 1) \o <<NameLine(newName)>> \o SubSeq(m, i + 2, Len(m))
            ELSE m

\* ------------------------------------------------------------ constructor
\* this.skillsDir = path.resolve(skillsDir)
skillsDir == <<"/", "skills">>

\* The archivedDir argument each configuration passes: none, a directory
\* inside the resources root, a directory outside it.
ArchivedDirArg(cfg) ==
  CASE cfg = "default" -> <<>>
    [] cfg = "inside" -> skillsDir \o <<"old">>
    [] cfg = "outside" -> <<"/", "custom-archived">>

\* Mutant of constructorArchivedDir: the argument is ignored.
constructorArchivedDir_ignored(arg) == skillsDir \o <<".archived">>

\* this.archivedDir = archivedDir ? path.resolve(archivedDir)
\*                                : path.join(this.skillsDir, '.archived')
constructorArchivedDir(arg) ==
  IF arg # <<>> THEN arg ELSE skillsDir \o <<".archived">>

\* ------------------------------------------------------- paths on the disk
\* A path string is the sequence of its characters.  On the disk a path is
\* the sequence of its segments below "/", each segment a string of
\* characters.
RECURSIVE splitFrom(_, _, _, _)
splitFrom(s, i, cur, acc) ==
  IF i > Len(s) THEN Append(acc, cur)
  ELSE IF s[i] = "/" THEN splitFrom(s, i + 1, <<>>, Append(acc, cur))
  ELSE splitFrom(s, i + 1, Append(cur, s[i]), acc)

\* s.split('/'): a string without "/" is its only segment.
Segments(s) ==
  IF \A i \in 1..Len(s): s[i] # "/" THEN <<s>> ELSE splitFrom(s, 1, <<>>, <<>>)

RECURSIVE walk(_, _, _)
walk(segs, i, acc) ==
  IF i > Len(segs) THEN acc
  ELSE IF segs[i] \in {<<>>, <<".">>} THEN walk(segs, i + 1, acc)
  ELSE IF segs[i] = <<".", ".">>
       THEN walk(segs, i + 1,
                 IF acc = <<>> THEN acc ELSE SubSeq(acc, 1, Len(acc) - 1))
  ELSE walk(segs, i + 1, Append(acc, segs[i]))

\* path.join(base, s) for an absolute base: empty and "." segments vanish,
\* ".." steps up and stays at "/".
pathJoin(base, s) == walk(base \o Segments(s), 1, <<>>)

\* this.skillsDir and this.archivedDir of each configuration, spelled out:
\* /skills, and /skills/.archived, /skills/old or /custom-archived.
SkillsPath == << <<"s", "k", "i", "l", "l", "s">> >>
ArchivedPath(cfg) ==
  CASE cfg = "default" ->
         SkillsPath \o << <<".", "a", "r", "c", "h", "i", "v", "e", "d">> >>
    [] cfg = "inside" -> SkillsPath \o << <<"o", "l", "d">> >>
    [] cfg = "outside" ->
         << <<"c", "u", "s", "t", "o", "m", "-", "a", "r", "c", "h", "i", "v", "e", "d">> >>

\* The entries a skill directory can hold, by their spelling.
EntryName(seg) ==
  CASE seg = <<"r", "e", "f", "e", "r", "e", "n", "c", "e", "s">> -> "references"
    [] seg = <<"s", "c", "r", "i", "p", "t", "s">> -> "scripts"
    [] seg = <<"a", "s", "s", "e", "t", "s">> -> "assets"
    [] seg = <<"S", "K", "I", "L", "L", ".", "m", "d">> -> "SKILL.md"
    [] OTHER -> ""

ParentPath(p) == SubSeq(p, 1, Len(p) - 1)
LastSegment(p) == p[Len(p)]

\* What path p is on the disk, if a directory of one of the roots: "top"
\* (/), "skills" (the resources root), "archived" (the archive root), "dir"
\* (a skill directory or an archive entry, at loc), or "none".
DirNode(f, cfg, p) ==
  IF p = <<>> THEN [kind |-> "top", loc |-> NoLoc]
  ELSE IF p = SkillsPath THEN [kind |-> "skills", loc |-> NoLoc]
  ELSE IF p = ArchivedPath(cfg)
       THEN [kind |-> IF f.root THEN "archived" ELSE "none", loc |-> NoLoc]
  ELSE IF ParentPath(p) = ArchivedPath(cfg) /\ LastSegment(p) \in DOMAIN f.archive
       THEN [kind |-> "dir", loc |-> ArchiveLoc(LastSegment(p))]
  ELSE IF ParentPath(p) = SkillsPath /\ LastSegment(p) \in DOMAIN f.online
       THEN [kind |-> "dir", loc |-> OnlineLoc(LastSegment(p))]
  ELSE [kind |-> "none", loc |-> NoLoc]

\* What path p is on the disk, given what it and its parent are as
\* directories of the roots (d, dp): a directory as above, an entry of a
\* skill directory ("sub"), or nothing the trees hold ("none").
NodeOf(f, p, d, dp) ==
  IF d.kind # "none" THEN d
  ELSE IF Len(p) >= 2 /\ dp.kind = "dir"
       THEN LET e == EntryName(LastSegment(p)) IN
            IF e \in DirAt(f, dp.loc).subdirs \/ <<e>> \in DOMAIN DirAt(f, dp.loc).files
            THEN [kind |-> "sub", loc |-> dp.loc]
            ELSE [kind |-> "none", loc |-> NoLoc]
  ELSE [kind |-> "none", loc |-> NoLoc]

Node(f, cfg, p) ==
  NodeOf(f, p, DirNode(f, cfg, p), DirNode(f, cfg, ParentPath(p)))

\* fileExists(filePath): fs.access succeeds
fileExists(f, cfg, p) == Node(f, cfg, p).kind # "none"

IsPathPrefix(p, q) == Len(p) <= Len(q) /\ SubSeq(q, 1, Len(p)) = p

NotModelled == "rename of a path that is no directory of a root"

\* fs.rename(from, to) on paths, given what from, to and the parent of to
\* are on the disk (n, m, pm): [fs, err].  A skill directory or an archive
\* entry moves to a child of one of the roots, or out of both trees; the
\* archive root moves out with all it holds.
renameNodes(f, cfg, from, to, n, m, pm) ==
  IF n.kind = "none" THEN [fs |-> f, err |-> "ENOENT"]
  ELSE IF from = to THEN [fs |-> f, err |-> ""]
  ELSE IF to = <<>> THEN [fs |-> f, err |-> "ENOTEMPTY"]
  ELSE IF pm.kind \in {"none", "sub"} THEN [fs |-> f, err |-> "ENOENT"]
  ELSE IF IsPathPrefix(from, to) THEN [fs |-> f, err |-> "EINVAL"]
  ELSE IF n.kind = "dir" /\ pm.kind \in {"skills", "archived"}
       THEN fsRename(f, n.loc,
                     [kind |-> IF pm.kind = "skills" THEN "online" ELSE "archive",
                      dir |-> LastSegment(to)])
  ELSE IF m.kind # "none" THEN [fs |-> f, err |-> "ENOTEMPTY"]
  ELSE IF n.kind = "dir" /\ pm.kind = "top"
       THEN [fs |-> RemoveDir(f, n.loc), err |-> ""]
  ELSE IF n.kind = "archived" /\ pm.kind = "top"
       THEN [fs |-> [f EXCEPT !.archive = <<>>, !.root = FALSE], err |-> ""]
  ELSE [fs |-> f, err |-> NotModelled]

renamePath(f, cfg, from, to) ==
  renameNodes(f, cfg, from, to, Node(f, cfg, from), Node(f, cfg, to),
              Node(f, cfg, ParentPath(to)))

\* ------------------------------------------------------------ task bodies
\* The context a body keeps between its steps: the baseDir of the skill it
\* loaded, the instant its archive name was computed from, and the directory
\* it made sure exists and moved the skill into.
NoCtx == [base |-> NoLoc, ts |-> Unset, dir |-> <<>>]

Threw(f, x, msg) == [fs |-> f, pc |-> "threw", err |-> msg, ctx |-> x]
Goes(f, x, pc) == [fs |-> f, pc |-> pc, err |-> "", ctx |-> x]

\* Mutant of doCreateSkill: the lookup by name is missing and every mkdir is
\* recursive, so an existing directory is taken over.
doCreateSkill_takesOver(f, cfg, c, pc, x, pick) ==
  CASE pc = "c_check" ->
         IF ~isValidSkillName(c.name) THEN Threw(f, x, "Invalid skill name")
         ELSE IF \E a \in listArchivedSkills(f): a.originalName = c.name
              THEN Threw(f, x, "Archived skill with name already exists")
         ELSE Goes(f, x, "c_mkdir")
    [] pc = "c_mkdir" ->
         LET l == OnlineLoc(c.name)
             d0 == IF DirExists(f, l) THEN DirAt(f, l) ELSE EmptyDir
         IN Goes(PutDir(f, l, [d0 EXCEPT !.subdirs = @ \cup SubDirs]), x, "c_write")
    [] pc = "c_write" ->
         LET l == OnlineLoc(c.name) IN
         IF ~DirExists(f, l) THEN Threw(f, x, "ENOENT")
         ELSE Goes(PutDir(f, l, [DirAt(f, l) EXCEPT !.files =
                      Put(@, SkillMd, generateSkillMd(c.optName, c.description))]),
                   x, "returned")

\* Mutant of doCreateSkill: the online check comes before the archived one.
doCreateSkill_onlineFirst(f, cfg, c, pc, x, pick) ==
  CASE pc = "c_check" ->
         IF ~isValidSkillName(c.name) THEN Threw(f, x, "Invalid skill name")
         ELSE IF pick # NoLoc
              THEN IF inDotArchived(pick, cfg)
                   THEN Threw(f, x, "Archived skill with name already exists")
                   ELSE Threw(f, x, "Skill already exists")
         ELSE IF \E a \in listArchivedSkills(f): a.originalName = c.name
              THEN Threw(f, x, "Archived skill with name already exists")
         ELSE Goes(f, x, "c_mkdir")
    [] pc = "c_mkdir" ->
         LET l == OnlineLoc(c.name)
             d0 == IF DirExists(f, l) THEN DirAt(f, l) ELSE EmptyDir
         IN IF "references" \in d0.subdirs THEN Threw(PutDir(f, l, d0), x, "EEXIST")
            ELSE IF "scripts" \in d0.subdirs
                 THEN Threw(PutDir(f, l, [d0 EXCEPT !.subdirs = @ \cup {"references"}]),
                            x, "EEXIST")
            ELSE IF "assets" \in d0.subdirs
                 THEN Threw(PutDir(f, l, [d0 EXCEPT !.subdirs =
                                            @ \cup {"references", "scripts"}]),
                            x, "EEXIST")
            ELSE Goes(PutDir(f, l, [d0 EXCEPT !.subdirs = SubDirs]), x, "c_write")
    [] pc = "c_write" ->
         LET l == OnlineLoc(c.name) IN
         IF ~DirExists(f, l) THEN Threw(f, x, "ENOENT")
         ELSE Goes(PutDir(f, l, [DirAt(f, l) EXCEPT !.files =
                      Put(@, SkillMd, generateSkillMd(c.optName, c.description))]),
                   x, "returned")

\* doCreateSkill, steps c_check, c_mkdir, c_write
doCreateSkill(f, cfg, c, pc, x, pick) ==
  CASE pc = "c_check" ->
         IF ~isValidSkillName(c.name) THEN Threw(f, x, "Invalid skill name")
         ELSE IF \E a \in listArchivedSkills(f): a.originalName = c.name
              THEN Threw(f, x, "Archived skill with name already exists")
         ELSE IF pick # NoLoc
              THEN IF inDotArchived(pick, cfg)
                   THEN Threw(f, x, "Archived skill with name already exists")
                   ELSE Threw(f, x, "Skill already exists")
         ELSE Goes(f, x, "c_mkdir")
    [] pc = "c_mkdir" ->
         LET l == OnlineLoc(c.name)
             d0 == IF DirExists(f, l) THEN DirAt(f, l) ELSE EmptyDir
         IN IF "references" \in d0.subdirs THEN Threw(PutDir(f, l, d0), x, "EEXIST")
            ELSE IF "scripts" \in d0.subdirs
                 THEN Threw(PutDir(f, l, [d0 EXCEPT !.subdirs = @ \cup {"references"}]),
                            x, "EEXIST")
            ELSE IF "assets" \in d0.subdirs
                 THEN Threw(PutDir(f, l, [d0 EXCEPT !.subdirs =
                                            @ \cup {"references", "scripts"}]),
                            x, "EEXIST")
            ELSE Goes(PutDir(f, l, [d0 EXCEPT !.subdirs = SubDirs]), x, "c_write")
    [] pc = "c_write" ->
         LET l == OnlineLoc(c.name) IN
         IF ~DirExists(f, l) THEN Threw(f, x, "ENOENT")
         ELSE Goes(PutDir(f, l, [DirAt(f, l) EXCEPT !.files =
                      Put(@, SkillMd, generateSkillMd(c.optName, c.description))]),
                   x, "returned")

\* Mutant of doRenameSkill: the new name is not looked up.
doRenameSkill_noNewCheck(f, cfg, c, pc, x, pick) ==
  CASE pc = "r_check" ->
         IF pick = NoLoc THEN Threw(f, x, "Skill not found")
         ELSE IF ~isValidSkillName(c.newName) THEN Threw(f, x, "Invalid skill name")
         ELSE Goes(f, x, "r_move")
    [] pc = "r_move" ->
         LET r == fsRename(f, OnlineLoc(c.name), OnlineLoc(c.newName)) IN
         IF r.err # "" THEN Threw(r.fs, x, r.err) ELSE Goes(r.fs, x, "r_patch")
    [] pc = "r_patch" ->
         LET l == OnlineLoc(c.newName) IN
         IF ~DirExists(f, l) \/ SkillMd \notin DOMAIN DirAt(f, l).files
         THEN Threw(f, x, "ENOENT")
         ELSE Goes(PutDir(f, l, [DirAt(f, l) EXCEPT !.files =
                      Put(@, SkillMd, replaceNameLine(@[SkillMd], c.newName))]),
                   x, "returned")

\* doRenameSkill, steps r_check, r_move, r_patch
doRenameSkill(f, cfg, c, pc, x, pick) ==
  CASE pc = "r_check" ->
         IF pick = NoLoc THEN Threw(f, x, "Skill not found")
         ELSE IF ~isValidSkillName(c.newName) THEN Threw(f, x, "Invalid skill name")
         ELSE IF LoadCandidates(f, cfg, c.newName) # {}
              THEN Threw(f, x, "Skill already exists")
         ELSE Goes(f, x, "r_move")
    [] pc = "r_move" ->
         LET r == fsRename(f, OnlineLoc(c.name), OnlineLoc(c.newName)) IN
         IF r.err # "" THEN Threw(r.fs, x, r.err) ELSE Goes(r.fs, x, "r_patch")
    [] pc = "r_patch" ->
         LET l == OnlineLoc(c.newName) IN
         IF ~DirExists(f, l) \/ SkillMd \notin DOMAIN DirAt(f, l).files
         THEN Threw(f, x, "ENOENT")
         ELSE Goes(PutDir(f, l, [DirAt(f, l) EXCEPT !.files =
                      Put(@, SkillMd, replaceNameLine(@[SkillMd], c.newName))]),
                   x, "returned")

\* The write of doEditSkillFile: through the sandbox of the skill directory,
\* or at path.join(baseDir, normalizedPath), wherever that is.
editWrite(f, cfg, c, x) ==
  LET np == normalize(c.path)
      r == IF c.useSandbox THEN [at |-> x.base, path |-> np] ELSE Resolve(x.base, np)
      d0 == IF r.at # Elsewhere /\ DirExists(f, r.at) THEN DirAt(f, r.at) ELSE EmptyDir
      w == IF c.useSandbox THEN sandboxWrite(d0, r.path, c.content)
           ELSE directWrite(d0, r.path, c.content)
  IN IF ~c.useSandbox /\ (r.at = Elsewhere \/ ~DirExists(f, r.at))
     THEN Threw(f, x, "ENOENT")
     ELSE IF w.err # "" THEN Threw(f, x, w.err)
     ELSE Goes(PutDir(f, r.at, w.dir), x, "returned")

\* Mutant of doEditSkillFile: the path is not checked.
doEditSkillFile_noPathCheck(f, cfg, c, pc, x, pick) ==
  CASE pc = "e_check" ->
         IF pick = NoLoc THEN Threw(f, x, "Skill not found")
         ELSE IF inDotArchived(pick, cfg) THEN Threw(f, x, "Cannot edit archived skill")
         ELSE Goes(f, x, "e_write")
    [] pc = "e_write" -> editWrite(f, cfg, c, x)

\* doEditSkillFile, steps e_check, e_write
doEditSkillFile(f, cfg, c, pc, x, pick) ==
  CASE pc = "e_check" ->
         IF pick = NoLoc THEN Threw(f, x, "Skill not found")
         ELSE IF inDotArchived(pick, cfg) THEN Threw(f, x, "Cannot edit archived skill")
         ELSE IF escapesBase(normalize(c.path)) THEN Threw(f, x, "Invalid file path")
         ELSE Goes(f, x, "e_write")
    [] pc = "e_write" -> editWrite(f, cfg, c, x)

\* Mutant of doDeleteSkill: the archive root is made before the lookup.
doDeleteSkill_mkdirFirst(f, cfg, c, pc, x, pick, k) ==
  CASE pc = "d_check" ->
         IF pick = NoLoc
           THEN Threw([f EXCEPT !.root = TRUE], x, "Skill not found")
         ELSE Goes([f EXCEPT !.root = TRUE], x, "d_move")
    [] pc = "d_move" ->
         LET f1 == [f EXCEPT !.root = TRUE]
             r == fsRename(f1, x.base, ArchiveLoc(ArchivedName(c.name, k)))
             x1 == [x EXCEPT !.ts = k,
                             !.dir = constructorArchivedDir(ArchivedDirArg(cfg))]
         IN IF r.err # "" THEN Threw(r.fs, x1, r.err) ELSE Goes(r.fs, x1, "returned")

\* doDeleteSkill, steps d_check, d_move; k is the instant of new Date()
doDeleteSkill(f, cfg, c, pc, x, pick, k) ==
  CASE pc = "d_check" ->
         IF pick = NoLoc THEN Threw(f, x, "Skill not found")
         ELSE Goes(f, x, "d_move")
    [] pc = "d_move" ->
         LET f1 == [f EXCEPT !.root = TRUE]
             r == fsRename(f1, x.base, ArchiveLoc(ArchivedName(c.name, k)))
             x1 == [x EXCEPT !.ts = k,
                             !.dir = constructorArchivedDir(ArchivedDirArg(cfg))]
         IN IF r.err # "" THEN Threw(r.fs, x1, r.err) ELSE Goes(r.fs, x1, "returned")

\* Mutant of doRestoreSkill: the target is not checked before the move.
doRestoreSkill_noTargetCheck(f, cfg, c, pc, x, pick) ==
  LET archivedPath == pathJoin(ArchivedPath(cfg), c.name)
      targetPath == pathJoin(SkillsPath, StripTimestamp(c.name))
  IN CASE pc = "s_check" ->
            IF ~fileExists(f, cfg, archivedPath)
            THEN Threw(f, x, "Archived skill not found")
            ELSE Goes(f, x, "s_move")
       [] pc = "s_move" ->
            LET r == renamePath(f, cfg, archivedPath, targetPath) IN
            IF r.err # "" THEN Threw(r.fs, x, r.err) ELSE Goes(r.fs, x, "returned")

\* Mutant of doRestoreSkill: a name that is no entry of the archive root is
\* refused.
doRestoreSkill_entriesOnly(f, cfg, c, pc, x, pick) ==
  LET archivedPath == pathJoin(ArchivedPath(cfg), c.name)
      targetPath == pathJoin(SkillsPath, StripTimestamp(c.name))
  IN CASE pc = "s_check" ->
            IF ~fileExists(f, cfg, archivedPath) \/ c.name \notin DOMAIN f.archive
            THEN Threw(f, x, "Archived skill not found")
            ELSE IF fileExists(f, cfg, targetPath)
                 THEN Threw(f, x, "Skill already exists")
            ELSE Goes(f, x, "s_move")
       [] pc = "s_move" ->
            LET r == renamePath(f, cfg, archivedPath, targetPath) IN
            IF r.err # "" THEN Threw(r.fs, x, r.err) ELSE Goes(r.fs, x, "returned")

\* doRestoreSkill, steps s_check, s_move.  The name is joined to the archive
\* root as it is; the target is the name without its timestamp suffix,
\* joined to the resources root.
doRestoreSkill(f, cfg, c, pc, x, pick) ==
  LET archivedPath == pathJoin(ArchivedPath(cfg), c.name)
      targetPath == pathJoin(SkillsPath, StripTimestamp(c.name))
  IN CASE pc = "s_check" ->
            IF ~fileExists(f, cfg, archivedPath)
            THEN Threw(f, x, "Archived skill not found")
            ELSE IF fileExists(f, cfg, targetPath)
                 THEN Threw(f, x, "Skill already exists")
            ELSE Goes(f, x, "s_move")
       [] pc = "s_move" ->
            LET r == renamePath(f, cfg, archivedPath, targetPath) IN
            IF r.err # "" THEN Threw(r.fs, x, r.err) ELSE Goes(r.fs, x, "returned")

\* One step of the body of the task created by call c; a step that loads a
\* skill keeps what it loaded.
BodyStep(f, cfg, c, pc, x, pick, k) ==
  LET x0 == IF pick # NoLoc THEN [x EXCEPT !.base = pick] ELSE x IN
  CASE c.op = CREATE -> doCreateSkill(f, cfg, c, pc, x0, pick)
    [] c.op = RENAME -> doRenameSkill(f, cfg, c, pc, x0, pick)
    [] c.op = EDIT -> doEditSkillFile(f, cfg, c, pc, x0, pick)
    [] c.op = DELETE -> doDeleteSkill(f, cfg, c, pc, x0, pick, k)
    [] c.op = RESTORE -> doRestoreSkill(f, cfg, c, pc, x0, pick)

\* What loadSkillContent may return to the step at pc (NoLoc where the step
\* does not load).
StepLoads(f, cfg, c, pc) ==
  IF pc \in {"c_check", "r_check", "e_check", "d_check"}
  THEN Loads(f, cfg, c.name)
  ELSE {NoLoc}

EntryOf(op) ==
  CASE op = CREATE -> "c_check" [] op = RENAME -> "r_check" [] op = EDIT -> "e_check"
    [] op = DELETE -> "d_check" [] op = RESTORE -> "s_check"

\* ------------------------------------------------------------ task objects
\* An OperationTask as its creator builds it: status PENDING, no startedAt,
\* completedAt or error.  The other fields are not fields of the object:
\* bpc is the position of its execute() body ("none" before it is invoked),
\* thrown the value the body threw, by the task from whose body enqueue was
\* called (0: called from outside any body), discarded whether clear() took
\* it out of the queue, enqueued how many times enqueue was called with it.
NewTask(type, by, closure) ==
  [type |-> type, status |-> PENDING, createdAt |-> now,
   startedAt |-> Unset, completedAt |-> Unset, error |-> NoError,
   bpc |-> "none", thrown |-> NoError, by |-> by, closure |-> closure,
   ctx |-> NoCtx, discarded |-> FALSE, enqueued |-> 1]

\* First position of a task's body once execute() is invoked: "run" for a
\* body the queue knows nothing about, the first step of doXxxSkill for a
\* task the manager built.
BodyEntry(rec) == IF rec.closure = "manager" THEN EntryOf(rec.type) ELSE "run"

BodyRunning(tk, t) == tk[t].bpc \notin {"none", "returned", "threw", "done"}

\* Number of task bodies currently executing.
Executing(tk) == Cardinality({t \in DOMAIN tk : BodyRunning(tk, t)})

\* ------------------------------------------------------------------- queue
\* Mutants of dequeue: take the newest task; leave the head in the queue.
dequeue_last(q) ==
  IF q = <<>> THEN [task |-> 0, rest |-> q]
  ELSE [task |-> q[Len(q)], rest |-> SubSeq(q, 1, Len(q) - 1)]

dequeue_peek(q) ==
  IF q = <<>> THEN [task |-> 0, rest |-> q]
  ELSE [task |-> Head(q), rest |-> q]

\* dequeue(): this.queue.shift() || null  (0 stands for null)
dequeue(q) ==
  IF q = <<>> THEN [task |-> 0, rest |-> q]
  ELSE [task |-> Head(q), rest |-> Tail(q)]

\* Mutant of processQueueLoop: the dequeued task keeps its status.
processQueueLoop_statusKept(q, tk) ==
  IF Len(q) > 0
  THEN LET d == dequeue(q) IN
       IF d.task = 0
       THEN [queue |-> d.rest, tasks |-> tk, processing |-> FALSE]
       ELSE [queue |-> d.rest,
             tasks |-> [tk EXCEPT ![d.task].startedAt = now,
                                  ![d.task].bpc = BodyEntry(tk[d.task])],
             processing |-> TRUE]
  ELSE [queue |-> q, tasks |-> tk, processing |-> FALSE]

\* Mutant of processQueueLoop: the loop ends when one task is left.
processQueueLoop_leavesLast(q, tk) ==
  IF Len(q) > 1
  THEN LET d == dequeue(q) IN
       IF d.task = 0
       THEN [queue |-> d.rest, tasks |-> tk, processing |-> FALSE]
       ELSE [queue |-> d.rest,
             tasks |-> [tk EXCEPT ![d.task].status = PROCESSING,
                                  ![d.task].startedAt = now,
                                  ![d.task].bpc = BodyEntry(tk[d.task])],
             processing |-> TRUE]
  ELSE [queue |-> q, tasks |-> tk, processing |-> FALSE]

\* Mutant of processQueueLoop: the loop exits without clearing the flag.
processQueueLoop_flagKept(q, tk) ==
  IF Len(q) > 0
  THEN LET d == dequeue(q) IN
       [queue |-> d.rest,
        tasks |-> [tk EXCEPT ![d.task].status = PROCESSING,
                             ![d.task].startedAt = now,
                             ![d.task].bpc = BodyEntry(tk[d.task])],
        processing |-> TRUE]
  ELSE [queue |-> q, tasks |-> tk, processing |-> TRUE]

\* processQueue(), from the while test to `await task.execute()` or to the
\* exit of the loop.
processQueueLoop(q, tk) ==
  IF Len(q) > 0
  THEN LET d == dequeue(q) IN
       IF d.task = 0
       THEN [queue |-> d.rest, tasks |-> tk, processing |-> FALSE]
       ELSE [queue |-> d.rest,
             tasks |-> [tk EXCEPT ![d.task].status = PROCESSING,
                                  ![d.task].startedAt = now,
                                  ![d.task].bpc = BodyEntry(tk[d.task])],
             processing |-> TRUE]
  ELSE [queue |-> q, tasks |-> tk, processing |-> FALSE]

\* Mutant of startsDrain: enqueue never starts processQueue().
startsDrain_never(p) == FALSE

\* Mutant of startsDrain: enqueue starts processQueue() whatever the flag says.
startsDrain_always(p) == TRUE

\* enqueue(): `if (!this.processing)` decides whether processQueue() is called.
startsDrain(p) == ~p

\* enqueue(task): push, then start processQueue() unless one is active.
\* processQueue() runs synchronously up to its first await.
enqueue(rec) ==
  LET id == Len(tasks) + 1
      q1 == Append(queue, id)
      tk1 == Append(tasks, rec)
  IN IF startsDrain(processing)
     THEN LET r == processQueueLoop(q1, tk1) IN
          /\ queue' = r.queue
          /\ tasks' = r.tasks
          /\ processing' = r.processing
     ELSE /\ queue' = q1
          /\ tasks' = tk1
          /\ UNCHANGED processing

\* Mutant of settled: completedAt is not written.
settled_noCompletedAt(rec) ==
  IF rec.bpc = "returned"
  THEN [rec EXCEPT !.status = COMPLETED, !.bpc = "done"]
  ELSE [rec EXCEPT !.status = FAILED, !.error = rec.thrown, !.bpc = "done"]

\* Mutant of settled: the catch block does not keep the error.
settled_errorLost(rec) ==
  IF rec.bpc = "returned"
  THEN [rec EXCEPT !.status = COMPLETED, !.completedAt = now, !.bpc = "done"]
  ELSE [rec EXCEPT !.status = FAILED, !.completedAt = now, !.bpc = "done"]

\* The task record after the try block or the catch block of processQueue.
settled(rec) ==
  IF rec.bpc = "returned"
  THEN [rec EXCEPT !.status = COMPLETED, !.completedAt = now, !.bpc = "done"]
  ELSE [rec EXCEPT !.status = FAILED, !.completedAt = now,
                   !.error = rec.thrown, !.bpc = "done"]

\* createSkill after the wait: getSkillInfo(skillName), which loads the skill
\* and refuses one under .archived.
afterGetSkillInfo(c, l, cfg) ==
  IF l = NoLoc
  THEN [c EXCEPT !.cpc = "raised",
                 !.raised = [msg |-> "Failed to get skill info after creation",
                             origin |-> 0]]
  ELSE IF inDotArchived(l, cfg)
       THEN [c EXCEPT !.cpc = "raised",
                      !.raised = [msg |-> "Cannot get info for archived skill",
                                  origin |-> 0]]
  ELSE [c EXCEPT !.cpc = "returned"]

\* The reference run: the bodies of the settled manager tasks run one at a
\* time, each to completion, in the order `applied`, on the trees ref.fs;
\* out[t] is the status and error message that run gives task t, and the
\* ways the call can end when the rest of the call follows its body at once.
EmptyRef == [fs |-> EmptyFs, out |-> <<>>, applied |-> <<>>]

\* The whole body of call c run on f without interruption, resolving what it
\* loads and the instant it reads as the run recorded in x did.
RECURSIVE RunBody(_, _, _, _, _, _)
RunBody(f, cfg, c, pc, x, seen) ==
  IF pc \in {"returned", "threw"} THEN [fs |-> f, pc |-> pc, err |-> x.err]
  ELSE LET ls == StepLoads(f, cfg, c, pc)
           pick == IF seen.base \in ls THEN seen.base ELSE CHOOSE l \in ls: TRUE
           r == BodyStep(f, cfg, c, pc, x.ctx, pick, seen.ts)
       IN RunBody(r.fs, cfg, c, r.pc, [ctx |-> r.ctx, err |-> r.err], seen)

RefCallEnds(f, cfg, c, pc) ==
  IF pc = "threw" THEN {"raised"}
  ELSE IF c.op # CREATE THEN {"returned"}
  ELSE {afterGetSkillInfo(c, l, cfg).cpc : l \in Loads(f, cfg, c.name)}

RefApply(rf, cfg, c, t, seen) ==
  LET r == RunBody(rf.fs, cfg, c, EntryOf(c.op), [ctx |-> NoCtx, err |-> ""], seen) IN
  [fs |-> r.fs,
   out |-> Put(rf.out, t, [status |-> IF r.pc = "returned" THEN COMPLETED ELSE FAILED,
                           msg |-> r.err,
                           ends |-> RefCallEnds(r.fs, cfg, c, r.pc)]),
   applied |-> Append(rf.applied, t)]

\* processQueue() resumes after `await task.execute()`: records the outcome
\* and goes round the loop.
Settle(t) ==
  /\ t \in TaskIds
  /\ tasks[t].bpc \in {"returned", "threw"}
  /\ LET r == processQueueLoop(queue, [tasks EXCEPT ![t] = settled(tasks[t])]) IN
     /\ queue' = r.queue
     /\ tasks' = r.tasks
     /\ processing' = r.processing
  /\ ref' = IF t \in DOMAIN calls
            THEN RefApply(ref, archivedDir, calls[t], t, tasks[t].ctx)
            ELSE ref
  /\ UNCHANGED <<now, calls, fs, archivedDir, mtime, io, snap>>

\* clear() gives this.queue a new array: a list that is the queue's own array
\* keeps what it holds and is the queue's array no longer.
detached(sn, q) ==
  IF sn.live THEN [sn EXCEPT !.tasks = q, !.live = FALSE] ELSE sn

\* Mutant of clear: the pending tasks stay in the queue.
clear_kept(q) == q

\* clear(): this.queue = []
clear(q) == <<>>

Range(q) == {q[i] : i \in 1..Len(q)}

Clear ==
  /\ queue' = clear(queue)
  /\ tasks' = [t \in DOMAIN tasks |->
                IF t \in Range(queue) THEN [tasks[t] EXCEPT !.discarded = TRUE]
                ELSE tasks[t]]
  /\ snap' = [i \in DOMAIN snap |-> detached(snap[i], queue)]
  /\ UNCHANGED <<processing, now, mgrvars, io>>

\* getQueueStatus(): the length, the flag, and a copy of the pending sequence.
getQueueStatus ==
  [length |-> Len(queue), processing |-> processing,
   tasks |-> [i \in 1..Len(queue) |-> queue[i]]]

\* Time passes between two synchronous blocks.
Tick ==
  /\ now < MaxClock
  /\ now' = now + 1
  /\ UNCHANGED <<queue, processing, tasks, mgrvars, io, snap>>

\* ------------------------------------------- queue-level model: any bodies
\* A caller outside any task body enqueues a new task.
Enqueue ==
  /\ Len(tasks) < MaxTasks
  /\ enqueue(NewTask(EDIT, 0, "opaque"))
  /\ UNCHANGED <<now, mgrvars, io, snap>>

\* The running body of task t enqueues a new task.
BodyEnqueue(t) ==
  /\ t \in TaskIds
  /\ tasks[t].bpc = "run"
  /\ Len(tasks) < MaxTasks
  /\ enqueue(NewTask(EDIT, t, "opaque"))
  /\ UNCHANGED <<now, mgrvars, io, snap>>

\* The body of task t returns.
BodyReturn(t) ==
  /\ t \in TaskIds
  /\ tasks[t].bpc = "run"
  /\ tasks' = [tasks EXCEPT ![t].bpc = "returned"]
  /\ UNCHANGED <<queue, processing, now, mgrvars, io, snap>>

\* The body of task t throws v.
BodyThrow(t, v) ==
  /\ t \in TaskIds
  /\ tasks[t].bpc = "run"
  /\ tasks' = [tasks EXCEPT ![t].bpc = "threw",
                            ![t].thrown = [msg |-> v, origin |-> t]]
  /\ UNCHANGED <<queue, processing, now, mgrvars, io, snap>>

Init ==
  /\ queue = <<>>
  /\ processing = FALSE
  /\ tasks = <<>>
  /\ now = 1
  /\ calls = <<>>
  /\ fs = EmptyFs
  /\ archivedDir = "default"
  /\ ref = EmptyRef
  /\ mtime = <<>>
  /\ io = <<>>
  /\ snap = <<>>

Next ==
  \/ Enqueue
  \/ \E t \in 1..MaxTasks: BodyEnqueue(t)
  \/ \E t \in 1..MaxTasks: BodyReturn(t)
  \/ \E t \in 1..MaxTasks, v \in ThrownValues: BodyThrow(t, v)
  \/ \E t \in 1..MaxTasks: Settle(t)
  \/ Clear
  \/ Tick

Spec == Init /\ [][Next]_vars

\* Every body of the queue-level model terminates, and a continuation that is
\* ready to run does run.
FairSpec ==
  /\ Spec
  /\ WF_vars(\E t \in 1..MaxTasks: Settle(t))
  /\ \A t \in 1..MaxTasks:
       WF_vars(BodyReturn(t) \/ \E v \in ThrownValues: BodyThrow(t, v))

\* ------------------------ queue-level model: task objects enqueued again
MaxEnqueues == 2     \* times one task object is handed to enqueue
MaxReuses == 1       \* task objects handed to enqueue more than once in a run

\* The task objects other than t that were enqueued more than once.
ReusedBeside(t) == {u \in TaskIds \ {t} : tasks[u].enqueued > 1}

\* A caller calls enqueue with the task object t it has enqueued before,
\* which is waiting in the queue, was discarded or has settled: the object
\* joins the queue as it is, and processQueue() is started unless one is
\* active.
EnqueueAgain(t) ==
  /\ t \in TaskIds
  /\ tasks[t].enqueued < MaxEnqueues
  /\ Cardinality(ReusedBeside(t)) < MaxReuses
  /\ tasks[t].bpc \in {"none", "done"}
  /\ IF startsDrain(processing)
     THEN /\ queue' = processQueueLoop(Append(queue, t),
                        [tasks EXCEPT ![t].enqueued = @ + 1]).queue
          /\ tasks' = processQueueLoop(Append(queue, t),
                        [tasks EXCEPT ![t].enqueued = @ + 1]).tasks
          /\ processing' = processQueueLoop(Append(queue, t),
                        [tasks EXCEPT ![t].enqueued = @ + 1]).processing
     ELSE /\ queue' = Append(queue, t)
          /\ tasks' = [tasks EXCEPT ![t].enqueued = @ + 1]
          /\ UNCHANGED processing
  /\ UNCHANGED <<now, mgrvars, io, snap>>

ReuseNext ==
  \/ Enqueue
  \/ \E t \in 1..MaxTasks: EnqueueAgain(t)
  \/ \E t \in 1..MaxTasks: BodyEnqueue(t)
  \/ \E t \in 1..MaxTasks: BodyReturn(t)
  \/ \E t \in 1..MaxTasks, v \in ThrownValues: BodyThrow(t, v)
  \/ \E t \in 1..MaxTasks: Settle(t)
  \/ Clear
  \/ Tick

ReuseSpec == Init /\ [][ReuseNext]_vars

\* ---------------------------- queue-level model: callers that ask for status
MaxSnaps == 1
MaxEdits == 1

\* Mutant of returnsQueueArray: `tasks: this.queue`.
returnsQueueArray_alias == TRUE

\* tasks: [...this.queue] is a new array, never the queue's own.
returnsQueueArray == FALSE

\* What a list the caller holds contains.
ListOf(sn) == IF sn.live THEN queue ELSE sn.tasks

\* A caller calls getQueueStatus() and keeps the object.
GetQueueStatus ==
  /\ Len(snap) < MaxSnaps
  /\ snap' = Append(snap, [length |-> getQueueStatus.length,
                            processing |-> getQueueStatus.processing,
                            tasks |-> getQueueStatus.tasks,
                            live |-> returnsQueueArray,
                            edits |-> 0])
  /\ UNCHANGED <<queue, processing, tasks, now, mgrvars, io>>

Reverse(l) == [i \in 1..Len(l) |-> l[Len(l) + 1 - i]]

\* What the caller can turn a list into: reverse(), pop(), shift(),
\* push(first element).
ListEdits(l) ==
  IF l = <<>> THEN {}
  ELSE {Reverse(l), SubSeq(l, 1, Len(l) - 1), Tail(l), Append(l, l[1])} \ {l}

\* The caller changes the list of a status object in place.
EditStatusList ==
  \E i \in 1..MaxSnaps:
    /\ i \in DOMAIN snap
    /\ snap[i].edits < MaxEdits
    /\ \E l2 \in ListEdits(ListOf(snap[i])):
         IF snap[i].live
         THEN /\ queue' = l2
              /\ snap' = [snap EXCEPT ![i].edits = @ + 1]
         ELSE /\ queue' = queue
              /\ snap' = [snap EXCEPT ![i].edits = @ + 1, ![i].tasks = l2]
    /\ UNCHANGED <<processing, tasks, now, mgrvars, io>>

StatusNext == Next \/ GetQueueStatus \/ EditStatusList

StatusSpec == Init /\ [][StatusNext]_vars

\* --------------------------------------- manager-level model: the callers
\* Inputs of the manager calls.
Names == {<<"a">>, <<"b">>}
Descriptions == {<<"d">>}
PlainText == <<TextLine(<<"x">>)>>
EditInputs ==
  {[path |-> SkillMd, content |-> generateSkillMd(<<"b">>, <<"e">>), useSandbox |-> TRUE],
   [path |-> <<"references", "doc.md">>, content |-> PlainText, useSandbox |-> FALSE],
   [path |-> <<"..", "escape.md">>, content |-> PlainText, useSandbox |-> TRUE]}
RestoreInputs == {ArchivedName(n, k) : n \in Names, k \in 0..MaxClock}
ArchivedDirs == {"default", "outside", "inside"}

\* A call in progress: its arguments, where its caller stands (cpc), how long
\* waitForTask has waited, and the error the call raised.
NewCall(op, name, newName, optName, description, path, content, useSandbox) ==
  [op |-> op, name |-> name, newName |-> newName, optName |-> optName,
   description |-> description, path |-> path, content |-> content,
   useSandbox |-> useSandbox,
   cpc |-> "sleep", totalWaited |-> 0, raised |-> NoError]

\* createSkill .. restoreSkill up to `await this.waitForTask(task)`: build the
\* task, enqueue it, start waiting.  The first test of waitForTask's loop
\* runs before any step of a body can settle the task, so the caller always
\* sleeps once.
Issue(op, name, newName, optName, description, path, content, useSandbox) ==
  /\ Len(calls) < MaxCalls
  /\ enqueue(NewTask(op, 0, "manager"))
  /\ calls' = Append(calls, NewCall(op, name, newName, optName, description,
                                    path, content, useSandbox))
  /\ UNCHANGED <<now, fs, archivedDir, ref, mtime, io, snap>>

CreateSkill ==
  \E n \in Names, o \in Names, d \in Descriptions:
    Issue(CREATE, n, <<>>, o, d, <<>>, <<>>, TRUE)

RenameSkill ==
  \E n \in Names, m \in Names: Issue(RENAME, n, m, <<>>, <<>>, <<>>, <<>>, TRUE)

EditSkillFile ==
  \E n \in Names, e \in EditInputs:
    Issue(EDIT, n, <<>>, <<>>, <<>>, e.path, e.content, e.useSandbox)

DeleteSkill ==
  \E n \in Names: Issue(DELETE, n, <<>>, <<>>, <<>>, <<>>, <<>>, TRUE)

RestoreSkill ==
  \E a \in RestoreInputs: Issue(RESTORE, a, <<>>, <<>>, <<>>, <<>>, <<>>, TRUE)

\* One step of the body of manager task t.
ManagerBody(t) ==
  /\ t \in DOMAIN calls
  /\ BodyRunning(tasks, t)
  /\ \E pick \in StepLoads(fs, archivedDir, calls[t], tasks[t].bpc):
       LET r == BodyStep(fs, archivedDir, calls[t], tasks[t].bpc, tasks[t].ctx,
                         pick, now)
       IN /\ fs' = r.fs
          /\ mtime' = touched(mtime, fs, r.fs, now)
          /\ tasks' = [tasks EXCEPT ![t].bpc = r.pc, ![t].ctx = r.ctx,
                         ![t].thrown = IF r.pc = "threw"
                                       THEN [msg |-> r.err, origin |-> t]
                                       ELSE @]
  /\ UNCHANGED <<queue, processing, now, calls, archivedDir, ref, io, snap>>

TimeoutError == [msg |-> "Operation timeout", origin |-> 0]

\* Mutant of afterSleep: the test after the loop is missing, an exhausted
\* budget falls through to the caller's error check.
afterSleep_noTimeout(c, task) ==
  LET w == c.totalWaited + pollInterval IN
  IF ~Terminal(task.status) /\ w < maxWaitTime
  THEN [c EXCEPT !.totalWaited = w]
  ELSE IF task.error # NoError
       THEN [c EXCEPT !.totalWaited = 0, !.cpc = "raised", !.raised = task.error]
  ELSE [c EXCEPT !.totalWaited = 0,
                 !.cpc = IF c.op = CREATE THEN "getinfo" ELSE "returned"]

\* Mutant of afterSleep: the caller's `if (task.error) throw task.error` is
\* missing.
afterSleep_noRethrow(c, task) ==
  LET w == c.totalWaited + pollInterval IN
  IF ~Terminal(task.status) /\ w < maxWaitTime
  THEN [c EXCEPT !.totalWaited = w]
  ELSE IF ~Terminal(task.status)
       THEN [c EXCEPT !.totalWaited = 0, !.cpc = "raised", !.raised = TimeoutError]
  ELSE [c EXCEPT !.totalWaited = 0,
                 !.cpc = IF c.op = CREATE THEN "getinfo" ELSE "returned"]

\* waitForTask after one sleep, then the rest of the call up to its next
\* await: the loop test, the timeout, `if (task.error) throw task.error`.
\* totalWaited is a local of waitForTask: it is gone (0) once that returns.
afterSleep(c, task) ==
  LET w == c.totalWaited + pollInterval IN
  IF ~Terminal(task.status) /\ w < maxWaitTime
  THEN [c EXCEPT !.totalWaited = w]
  ELSE IF ~Terminal(task.status)
       THEN [c EXCEPT !.totalWaited = 0, !.cpc = "raised", !.raised = TimeoutError]
  ELSE IF task.error # NoError
       THEN [c EXCEPT !.totalWaited = 0, !.cpc = "raised", !.raised = task.error]
  ELSE [c EXCEPT !.totalWaited = 0,
                 !.cpc = IF c.op = CREATE THEN "getinfo" ELSE "returned"]

Wake(t) ==
  /\ t \in DOMAIN calls
  /\ calls[t].cpc = "sleep"
  /\ calls' = [calls EXCEPT ![t] = afterSleep(calls[t], tasks[t])]
  /\ UNCHANGED <<queue, processing, tasks, now, fs, archivedDir, ref, mtime, io, snap>>

GetInfo(t) ==
  /\ t \in DOMAIN calls
  /\ calls[t].cpc = "getinfo"
  /\ \E l \in Loads(fs, archivedDir, calls[t].name):
       calls' = [calls EXCEPT ![t] = afterGetSkillInfo(calls[t], l, archivedDir)]
  /\ UNCHANGED <<queue, processing, tasks, now, fs, archivedDir, ref, mtime, io, snap>>

MgrInit ==
  /\ queue = <<>>
  /\ processing = FALSE
  /\ tasks = <<>>
  /\ now = 1
  /\ calls = <<>>
  /\ fs = EmptyFs
  /\ archivedDir \in ArchivedDirs
  /\ ref = EmptyRef
  /\ mtime = <<>>
  /\ io = <<>>
  /\ snap = <<>>

MgrNext ==
  \/ CreateSkill
  \/ RenameSkill
  \/ EditSkillFile
  \/ DeleteSkill
  \/ RestoreSkill
  \/ \E t \in 1..MaxCalls: ManagerBody(t)
  \/ \E t \in 1..MaxCalls: Settle(t)
  \/ \E t \in 1..MaxCalls: Wake(t)
  \/ \E t \in 1..MaxCalls: GetInfo(t)
  \/ Tick

MgrSpec == MgrInit /\ [][MgrNext]_vars

\* ------------------------- manager-level model: a caller that awaits its calls
\* A skill directory as createSkill leaves it, and an archive entry made at
\* an earlier instant (0), before the manager was constructed.
SkillDir(n) ==
  [subdirs |-> SubDirs, files |-> Put(<<>>, SkillMd, generateSkillMd(n, <<"d">>))]

Earlier(n) == ArchivedName(n, 0)

\* The trees the constructor can find on disk.
TreeOnline == [online |-> Put(<<>>, <<"a">>, SkillDir(<<"a">>)),
               archive |-> <<>>, root |-> FALSE]
TreeOnlineTwo == [online |-> Put(Put(<<>>, <<"a">>, SkillDir(<<"a">>)),
                                 <<"b">>, SkillDir(<<"b">>)),
                  archive |-> <<>>, root |-> FALSE]
TreeArchived == [online |-> <<>>,
                 archive |-> Put(<<>>, Earlier(<<"a">>), SkillDir(<<"a">>)),
                 root |-> TRUE]
TreeBoth == [online |-> Put(<<>>, <<"a">>, SkillDir(<<"a">>)),
             archive |-> Put(<<>>, Earlier(<<"a">>), SkillDir(<<"a">>)),
             root |-> TRUE]
InitialTrees == {EmptyFs, TreeOnline, TreeOnlineTwo, TreeArchived, TreeBoth}

\* The modification times found on disk: every directory was last changed
\* at the earlier instant, except b, which was changed after a.
InitialTimes(f) ==
  [l \in Locs(f) |-> IF l = OnlineLoc(<<"b">>) THEN 1 ELSE 0]

\* Every call issued so far has come to an end and its task has settled.
Awaited ==
  /\ \A t \in DOMAIN calls: calls[t].cpc \in {"returned", "raised"}
  /\ \A t \in DOMAIN tasks: Terminal(tasks[t].status)

\* The bodies of the awaited models end within the sleeps waitForTask's
\* budget allows (300 sleeps of 100 ms): the caller wakes to a task that has
\* settled.  The budget running out is the subject of MgrSpec.
WakeSettled(t) ==
  /\ t \in DOMAIN calls
  /\ Terminal(tasks[t].status)
  /\ Wake(t)

SeqInit ==
  /\ queue = <<>>
  /\ processing = FALSE
  /\ tasks = <<>>
  /\ now = 1
  /\ calls = <<>>
  /\ fs \in InitialTrees
  /\ archivedDir \in ArchivedDirs
  /\ ref = [fs |-> fs, out |-> <<>>, applied |-> <<>>]
  /\ mtime = InitialTimes(fs)
  /\ io = <<>>
  /\ snap = <<>>

SeqNext ==
  \/ Awaited /\ CreateSkill
  \/ Awaited /\ RenameSkill
  \/ Awaited /\ EditSkillFile
  \/ Awaited /\ DeleteSkill
  \/ Awaited /\ RestoreSkill
  \/ \E t \in 1..MaxCalls: ManagerBody(t)
  \/ \E t \in 1..MaxCalls: Settle(t)
  \/ \E t \in 1..MaxCalls: WakeSettled(t)
  \/ \E t \in 1..MaxCalls: GetInfo(t)
  \/ Tick

SeqSpec == SeqInit /\ [][SeqNext]_vars

\* ------------------- manager-level model: archiving and restoring any name
\* An encoded timestamp without milliseconds, as older archives carry it.
LegacyStamp ==
  <<"2", "0", "2", "6", "-", "0", "1", "-", "1", "5", "T",
    "0", "5", "-", "0", "5", "-", "0", "1", "Z">>

LegacyName(n) == n \o <<"_">> \o LegacyStamp

\* Valid skill names: plain, with underscores and dashes, ending in an
\* underscore, and ending in something shaped like a timestamp suffix.
EncNames ==
  {<<"a">>, <<"a", "_", "b">>, <<"a", "-", "b">>, <<"a", "_">>, <<"_", "a">>,
   LegacyName(<<"a">>), Earlier(<<"a">>), LegacyStamp, <<"_">> \o LegacyStamp}

\* The trees the constructor can find: one skill, online, or archived under
\* either form of the archive name.
EncTrees ==
  {[online |-> Put(<<>>, n, SkillDir(n)), archive |-> <<>>, root |-> FALSE] :
     n \in EncNames}
  \cup {[online |-> <<>>, archive |-> Put(<<>>, Earlier(n), SkillDir(n)), root |-> TRUE] :
          n \in EncNames}
  \cup {[online |-> <<>>, archive |-> Put(<<>>, LegacyName(n), SkillDir(n)), root |-> TRUE] :
          n \in EncNames}

EncInit ==
  /\ queue = <<>>
  /\ processing = FALSE
  /\ tasks = <<>>
  /\ now = 1
  /\ calls = <<>>
  /\ fs \in EncTrees
  /\ archivedDir \in ArchivedDirs
  /\ ref = [fs |-> fs, out |-> <<>>, applied |-> <<>>]
  /\ mtime = [l \in Locs(fs) |-> 0]
  /\ io = <<>>
  /\ snap = <<>>

\* deleteSkill(n) of a skill the loader finds
EncDelete ==
  \E n \in EncNames:
    /\ Loads(fs, archivedDir, n) # {NoLoc}
    /\ Issue(DELETE, n, <<>>, <<>>, <<>>, <<>>, <<>>, TRUE)

\* restoreSkill(archivedName) of a directory of the archive
EncRestore ==
  \E a \in DOMAIN fs.archive: Issue(RESTORE, a, <<>>, <<>>, <<>>, <<>>, <<>>, TRUE)

EncNext ==
  \/ Awaited /\ EncDelete
  \/ Awaited /\ EncRestore
  \/ \E t \in 1..MaxCalls: ManagerBody(t)
  \/ \E t \in 1..MaxCalls: Settle(t)
  \/ \E t \in 1..MaxCalls: Wake(t)
  \/ Tick

EncSpec == EncInit /\ [][EncNext]_vars

\* ------------------------------ manager-level model: edits with any path
\* Relative paths a caller may pass: inside the directory, leaving it by a
\* parent segment at once or after a detour, and absolute.
FilePaths ==
  {SkillMd, <<"references", "doc.md">>, <<".", "notes.md">>,
   <<"references", "..", "SKILL.md">>,
   <<"..", "secret">>, <<"..", "b", "SKILL.md">>,
   <<"references", "..", "..", "b", "SKILL.md">>,
   <<"/", "etc", "passwd">>}

EditInit ==
  /\ queue = <<>>
  /\ processing = FALSE
  /\ tasks = <<>>
  /\ now = 1
  /\ calls = <<>>
  /\ fs = TreeOnlineTwo
  /\ archivedDir \in ArchivedDirs
  /\ ref = [fs |-> fs, out |-> <<>>, applied |-> <<>>]
  /\ mtime = InitialTimes(fs)
  /\ io = <<>>
  /\ snap = <<>>

\* editSkillFile(n, p, content, useSandbox) with any of the paths
EditAnyFile ==
  \E n \in Names, p \in FilePaths, u \in BOOLEAN:
    Issue(EDIT, n, <<>>, <<>>, <<>>, p, PlainText, u)

EditNext ==
  \/ Awaited /\ EditAnyFile
  \/ \E t \in 1..MaxCalls: ManagerBody(t)
  \/ \E t \in 1..MaxCalls: Settle(t)
  \/ \E t \in 1..MaxCalls: Wake(t)
  \/ Tick

EditSpec == EditInit /\ [][EditNext]_vars

\* ------------------------------- file-level model: SandboxFileManager calls
MaxFileCalls == 2

\* The call op(base, p, ..) joins the log with its outcome, its effect the
\* trees.
FileCall(op, b, p) ==
  /\ Len(io) < MaxFileCalls
  /\ LET r == CASE op = "readFile" -> readFile(fs, OnlineLoc(b), p)
                 [] op = "writeFile" -> writeFile(fs, OnlineLoc(b), p, PlainText)
                 [] op = "createDir" -> createDir(fs, OnlineLoc(b), p)
     IN /\ io' = Append(io, [op |-> op, base |-> OnlineLoc(b), path |-> p,
                              err |-> r.err, at |-> r.at, read |-> r.read])
        /\ fs' = r.fs
        /\ mtime' = touched(mtime, fs, r.fs, now)
  /\ UNCHANGED <<queue, processing, tasks, now, calls, archivedDir, ref, snap>>

ReadFile == \E b \in Names, p \in FilePaths: FileCall("readFile", b, p)

WriteFile == \E b \in Names, p \in FilePaths: FileCall("writeFile", b, p)

CreateDir == \E b \in Names, p \in FilePaths: FileCall("createDir", b, p)

FileInit ==
  /\ queue = <<>>
  /\ processing = FALSE
  /\ tasks = <<>>
  /\ now = 1
  /\ calls = <<>>
  /\ fs = TreeOnlineTwo
  /\ archivedDir = "default"
  /\ ref = EmptyRef
  /\ mtime = InitialTimes(fs)
  /\ io = <<>>
  /\ snap = <<>>

FileNext == ReadFile \/ WriteFile \/ CreateDir \/ Tick

FileSpec == FileInit /\ [][FileNext]_vars

\* ------------------------------------------ SandboxFileManager.deleteFile
\* getDeleteCommand(filePath) on a platform other than win32:
\* `rm -f "${filePath}"`
getDeleteCommand(p) == <<"rm", "-f", p>>

\* sandbox.exec(cmd) of a delete command: the command runs with the work
\* directory of the sandbox as its current directory, and rm -f removes the
\* file its argument leads to, if there is one; a missing file is no error.
\* [fs, err, at]
sandboxExec(sb, f, cmd) ==
  LET r == Resolve(sb.workDir, normalize(cmd[3])) IN
  IF r.at # Elsewhere /\ DirExists(f, r.at) /\ r.path \in DOMAIN DirAt(f, r.at).files
  THEN [fs |-> PutDir(f, r.at, [DirAt(f, r.at) EXCEPT !.files = Remove(@, r.path)]),
        err |-> "", at |-> r.at]
  ELSE [fs |-> f, err |-> "", at |-> r.at]

\* deleteFile(skillBaseDir, relativePath): [fs, err, at, read]
deleteFile(f, base, p) ==
  LET r == sandboxExec(createSkillSandbox(base), f, getDeleteCommand(p)) IN
  [fs |-> r.fs, err |-> r.err, at |-> r.at, read |-> <<>>]

\* ------------------------- file-level model: calls that include deleteFile
DeleteFile ==
  \E b \in Names, p \in FilePaths:
    /\ Len(io) < MaxFileCalls
    /\ io' = Append(io, [op |-> "deleteFile", base |-> OnlineLoc(b), path |-> p,
                          err |-> deleteFile(fs, OnlineLoc(b), p).err,
                          at |-> deleteFile(fs, OnlineLoc(b), p).at,
                          read |-> deleteFile(fs, OnlineLoc(b), p).read])
    /\ fs' = deleteFile(fs, OnlineLoc(b), p).fs
    /\ mtime' = touched(mtime, fs, deleteFile(fs, OnlineLoc(b), p).fs, now)
    /\ UNCHANGED <<queue, processing, tasks, now, calls, archivedDir, ref, snap>>

DelNext == ReadFile \/ WriteFile \/ CreateDir \/ DeleteFile \/ Tick

DelSpec == FileInit /\ [][DelNext]_vars

\* ------------------------------ manager-level model: creating with any name
Repeat(ch, n) == [i \in 1..n |-> ch]

\* Names a caller may pass to createSkill: well-formed ones, at and over
\* the length limit, empty, and with characters outside the class.
CreateNames ==
  {<<"a">>, <<"T", "-", "0", "_", "Z">>, <<"-">>, <<"_">>,
   Repeat("a", MaxNameLength), Repeat("a", MaxNameLength + 1),
   <<>>, <<"a", ".", "b">>, <<".", ".">>, <<".", ".", "/", "a">>,
   <<"a", "/", "b">>, <<"/", "a">>, <<"a", "\\", "b">>, <<"a", " ", "b">>,
   <<"a", "\n">>, <<" ">>}

\* The trees the constructor can find: nothing, or archive entries of a and
\* of a.b.
NameTrees ==
  {EmptyFs,
   [online |-> <<>>,
    archive |-> [x \in {Earlier(<<"a">>), Earlier(<<"a", ".", "b">>)} |->
                   IF x = Earlier(<<"a">>) THEN SkillDir(<<"a">>)
                   ELSE SkillDir(<<"a", ".", "b">>)],
    root |-> TRUE]}

NameInit ==
  /\ queue = <<>>
  /\ processing = FALSE
  /\ tasks = <<>>
  /\ now = 1
  /\ calls = <<>>
  /\ fs \in NameTrees
  /\ archivedDir \in ArchivedDirs
  /\ ref = [fs |-> fs, out |-> <<>>, applied |-> <<>>]
  /\ mtime = [l \in Locs(fs) |-> 0]
  /\ io = <<>>
  /\ snap = <<>>

\* createSkill(n, {name: n, description}) with any of the names
CreateAnyName ==
  \E n \in CreateNames, d \in Descriptions:
    Issue(CREATE, n, <<>>, n, d, <<>>, <<>>, TRUE)

NameNext ==
  \/ Awaited /\ CreateAnyName
  \/ \E t \in 1..MaxCalls: ManagerBody(t)
  \/ \E t \in 1..MaxCalls: Settle(t)
  \/ \E t \in 1..MaxCalls: Wake(t)
  \/ \E t \in 1..MaxCalls: GetInfo(t)
  \/ Tick

NameSpec == NameInit /\ [][NameNext]_vars

\* ---------------------------- manager-level model: renaming on any manifest
\* Manifests a SKILL.md can hold: as generated for a; the name line with an
\* empty value; no name line; the name line after the description and a
\* line of the body that starts with "name:"; no name line in the front
\* matter and such a line in the body.
Manifests ==
  {generateSkillMd(<<"a">>, <<"d">>),
   <<Fence, NameLine(<<>>), DescLine(<<"d">>), Fence, TextLine(<<"a">>)>>,
   <<Fence, DescLine(<<"d">>), Fence, TextLine(<<"a">>)>>,
   <<Fence, DescLine(<<"d">>), NameLine(<<"a">>), Fence, TextLine(<<"a">>),
     NameLine(<<"x">>)>>,
   <<Fence, DescLine(<<"d">>), Fence, TextLine(<<"a">>), NameLine(<<"x">>)>>}

\* b online, a archived at an earlier instant.
TreeOther == [online |-> Put(<<>>, <<"b">>, SkillDir(<<"b">>)),
              archive |-> Put(<<>>, Earlier(<<"a">>), SkillDir(<<"a">>)),
              root |-> TRUE]

\* Directory a holds the manifest m, directory b a manifest that declares
\* the name a: what createSkill('b', {name: 'a'}) and an edit of a's
\* SKILL.md leave behind.
TreeCrossed(m) ==
  [online |-> Put(Put(<<>>, <<"a">>, [subdirs |-> SubDirs, files |-> Put(<<>>, SkillMd, m)]),
                  <<"b">>, SkillDir(<<"a">>)),
   archive |-> <<>>, root |-> FALSE]

RenTrees == {TreeOnlineTwo, TreeOther} \cup {TreeCrossed(m) : m \in Manifests}

RenNames == Names \cup {<<"c">>}
RenNewNames == RenNames \cup {<<".", ".">>}

RenInit ==
  /\ queue = <<>>
  /\ processing = FALSE
  /\ tasks = <<>>
  /\ now = 1
  /\ calls = <<>>
  /\ fs \in RenTrees
  /\ archivedDir \in ArchivedDirs
  /\ ref = [fs |-> fs, out |-> <<>>, applied |-> <<>>]
  /\ mtime = [l \in Locs(fs) |-> 0]
  /\ io = <<>>
  /\ snap = <<>>

\* renameSkill(n, m) with any of the names
RenameAny ==
  \E n \in RenNames, m \in RenNewNames:
    Issue(RENAME, n, m, <<>>, <<>>, <<>>, <<>>, TRUE)

RenNext ==
  \/ Awaited /\ RenameAny
  \/ \E t \in 1..MaxCalls: ManagerBody(t)
  \/ \E t \in 1..MaxCalls: Settle(t)
  \/ \E t \in 1..MaxCalls: Wake(t)
  \/ Tick

RenSpec == RenInit /\ [][RenNext]_vars

\* ------------------------------ manager-level model: one call of any kind
\* The caller makes a single call, of any operation and with any of the
\* inputs above, on any of the trees above.
OneInit ==
  /\ queue = <<>>
  /\ processing = FALSE
  /\ tasks = <<>>
  /\ now = 1
  /\ calls = <<>>
  /\ fs \in InitialTrees \cup NameTrees \cup RenTrees
  /\ archivedDir \in ArchivedDirs
  /\ ref = [fs |-> fs, out |-> <<>>, applied |-> <<>>]
  /\ mtime = [l \in Locs(fs) |-> 0]
  /\ io = <<>>
  /\ snap = <<>>

OneNext ==
  \/ calls = <<>> /\ CreateAnyName
  \/ calls = <<>> /\ RenameAny
  \/ calls = <<>> /\ EditAnyFile
  \/ calls = <<>> /\ DeleteSkill
  \/ calls = <<>> /\ RestoreSkill
  \/ \E t \in 1..MaxCalls: ManagerBody(t)
  \/ \E t \in 1..MaxCalls: Settle(t)
  \/ \E t \in 1..MaxCalls: Wake(t)
  \/ \E t \in 1..MaxCalls: GetInfo(t)
  \/ Tick

OneSpec == OneInit /\ [][OneNext]_vars

\* ------------------- manager-level model: creating with any options.name
\* The values options.name can take: a name, or the empty string.
OptionNames == Names \cup {<<>>}

\* createSkill(n, {name: o, description: d}), by callers that do not wait
\* for each other
CreateAnyOption ==
  \E n \in RenNames, o \in OptionNames, d \in Descriptions:
    Issue(CREATE, n, <<>>, o, d, <<>>, <<>>, TRUE)

OptNext ==
  \/ CreateAnyOption
  \/ \E t \in 1..MaxCalls: ManagerBody(t)
  \/ \E t \in 1..MaxCalls: Settle(t)
  \/ \E t \in 1..MaxCalls: Wake(t)
  \/ \E t \in 1..MaxCalls: GetInfo(t)
  \/ Tick

OptSpec == MgrInit /\ [][OptNext]_vars

\* --------------------- manager-level model: reads beside the queued calls
MaxReads == 1

\* Mutant of ReadCall: the read is wrapped in a task and enqueued.
ReadCall_queued(op, n) ==
  /\ Len(io) < MaxReads
  /\ \E l \in Loads(fs, archivedDir, n), l2 \in Loads(fs, archivedDir, n),
        arch \in (IF op = "listArchivedSkills"
                  THEN listArchivedSkillsSorted(fs, mtime) ELSE {<<>>}):
       io' = Append(io,
               [op |-> op, name |-> n,
                pending |-> Len(queue), processing |-> processing,
                err |-> CASE op = "getSkillInfo" -> getSkillInfo(fs, archivedDir, l, l2).err
                          [] op = "getSkillFileTree" -> getSkillFileTree(fs, archivedDir, l).err
                          [] OTHER -> "",
                out |-> CASE op = "listSkills" -> listSkills(fs, archivedDir)
                          [] op = "getSkillInfo" -> getSkillInfo(fs, archivedDir, l, l2).info
                          [] op = "listArchivedSkills" -> arch
                          [] op = "getSkillFileTree" -> getSkillFileTree(fs, archivedDir, l).tree
                          [] op = "getQueueStatus" -> getQueueStatus])
  /\ enqueue(NewTask(op, 0, "run"))
  /\ UNCHANGED <<now, calls, fs, archivedDir, ref, mtime, snap>>

\* A read-only call of the manager: listSkills(), getSkillInfo(n),
\* listArchivedSkills(), getSkillFileTree(n) or getQueueStatus().  It reads
\* the disk, or the queue, as it is when called; the log keeps what it
\* returned or threw and what the queue held at that time.
ReadCall(op, n) ==
  /\ Len(io) < MaxReads
  /\ \E l \in Loads(fs, archivedDir, n), l2 \in Loads(fs, archivedDir, n),
        arch \in (IF op = "listArchivedSkills"
                  THEN listArchivedSkillsSorted(fs, mtime) ELSE {<<>>}):
       io' = Append(io,
               [op |-> op, name |-> n,
                pending |-> Len(queue), processing |-> processing,
                err |-> CASE op = "getSkillInfo" -> getSkillInfo(fs, archivedDir, l, l2).err
                          [] op = "getSkillFileTree" -> getSkillFileTree(fs, archivedDir, l).err
                          [] OTHER -> "",
                out |-> CASE op = "listSkills" -> listSkills(fs, archivedDir)
                          [] op = "getSkillInfo" -> getSkillInfo(fs, archivedDir, l, l2).info
                          [] op = "listArchivedSkills" -> arch
                          [] op = "getSkillFileTree" -> getSkillFileTree(fs, archivedDir, l).tree
                          [] op = "getQueueStatus" -> getQueueStatus])
  /\ UNCHANGED <<queue, processing, tasks, now, calls, fs, archivedDir, ref, mtime, snap>>

ListSkills == ReadCall("listSkills", <<>>)
GetSkillInfo == \E n \in Names: ReadCall("getSkillInfo", n)
ListArchivedSkills == ReadCall("listArchivedSkills", <<>>)
GetSkillFileTree == \E n \in Names: ReadCall("getSkillFileTree", n)
ManagerQueueStatus == ReadCall("getQueueStatus", <<>>)

ReadInit ==
  /\ queue = <<>>
  /\ processing = FALSE
  /\ tasks = <<>>
  /\ now = 1
  /\ calls = <<>>
  /\ fs = TreeBoth
  /\ archivedDir \in ArchivedDirs
  /\ ref = [fs |-> fs, out |-> <<>>, applied |-> <<>>]
  /\ mtime = [l \in Locs(fs) |-> 0]
  /\ io = <<>>
  /\ snap = <<>>

ReadNext ==
  \/ DeleteSkill
  \/ \E t \in 1..MaxCalls: ManagerBody(t)
  \/ \E t \in 1..MaxCalls: Settle(t)
  \/ \E t \in 1..MaxCalls: Wake(t)
  \/ Tick
  \/ ListSkills
  \/ GetSkillInfo
  \/ ListArchivedSkills
  \/ GetSkillFileTree
  \/ ManagerQueueStatus

ReadSpec == ReadInit /\ [][ReadNext]_vars

\* --------------------- manager-level model: listing any archive directory
\* An encoded timestamp that the pattern accepts and that is no date: its
\* month is 13.
BadStamp ==
  <<"2", "0", "2", "6", "-", "1", "3", "-", "1", "5", "T",
    "0", "5", "-", "0", "5", "-", "0", "1", "Z">>

\* What the archive root can hold: archived skills under either form of the
\* archive name, one whose original name has an underscore, a directory
\* without SKILL.md, a directory whose name has no timestamp, a file, and a
\* directory whose timestamp is no date.
ArchiveEntries ==
  {<<Earlier(<<"a">>), SkillDir(<<"a">>)>>,
   <<LegacyName(<<"b">>), SkillDir(<<"b">>)>>,
   <<ArchivedName(<<"a", "_", "b">>, 1), SkillDir(<<"a", "_", "b">>)>>,
   <<ArchivedName(<<"b">>, 1), [subdirs |-> SubDirs, files |-> <<>>]>>,
   <<<<"a">>, SkillDir(<<"a">>)>>,
   <<ArchivedName(<<"c">>, 1), PlainFile>>,
   <<<<"b", "_">> \o BadStamp, SkillDir(<<"b">>)>>}

\* The tree whose archive root holds the entries es and nothing else.
ArchiveOf(es) ==
  [online |-> <<>>,
   archive |-> [x \in {e[1] : e \in es} |-> (CHOOSE e \in es: e[1] = x)[2]],
   root |-> TRUE]

ArchiveTrees == {EmptyFs} \cup {ArchiveOf(es) : es \in SUBSET ArchiveEntries}

ArchInit ==
  /\ queue = <<>>
  /\ processing = FALSE
  /\ tasks = <<>>
  /\ now = 1
  /\ calls = <<>>
  /\ fs \in ArchiveTrees
  /\ archivedDir \in ArchivedDirs
  /\ ref = [fs |-> fs, out |-> <<>>, applied |-> <<>>]
  /\ mtime = [l \in Locs(fs) |-> 0]
  /\ io = <<>>
  /\ snap = <<>>

\* listArchivedSkills() is called; the log keeps what it returned.
ListAnyArchive ==
  /\ Len(io) < MaxReads
  /\ \E arch \in listArchivedSkillsSorted(fs, mtime):
       io' = Append(io, [op |-> "listArchivedSkills", out |-> arch])
  /\ UNCHANGED <<queue, processing, tasks, now, calls, fs, archivedDir, ref, mtime, snap>>

ArchNext == ListAnyArchive \/ Tick

ArchSpec == ArchInit /\ [][ArchNext]_vars

\* ------------- manager-level model: a longer run of calls, one after another
MaxOps == 3          \* manager calls issued in one run of this model

\* A call issued by a caller that has awaited its earlier calls.
IssueInTurn(op, name, newName, optName, description, path, content, useSandbox) ==
  /\ Awaited
  /\ Len(calls) < MaxOps
  /\ enqueue(NewTask(op, 0, "manager"))
  /\ calls' = Append(calls, NewCall(op, name, newName, optName, description,
                                    path, content, useSandbox))
  /\ UNCHANGED <<now, fs, archivedDir, ref, mtime, io, snap>>

CreateInTurn ==
  \E n \in Names, o \in Names, d \in Descriptions:
    IssueInTurn(CREATE, n, <<>>, o, d, <<>>, <<>>, TRUE)

RenameInTurn ==
  \E n \in Names, m \in Names:
    IssueInTurn(RENAME, n, m, <<>>, <<>>, <<>>, <<>>, TRUE)

\* The edit that rewrites the manifest.
TurnEdits == {e \in EditInputs : e.path = SkillMd}

EditInTurn ==
  \E n \in Names, e \in TurnEdits:
    IssueInTurn(EDIT, n, <<>>, <<>>, <<>>, e.path, e.content, e.useSandbox)

DeleteInTurn ==
  \E n \in Names: IssueInTurn(DELETE, n, <<>>, <<>>, <<>>, <<>>, <<>>, TRUE)

\* The names restoreSkill is given: archive names, and a path that steps out
\* of the archive root.
TurnRestores == RestoreInputs \cup {<<".", ".", "/">> \o n : n \in Names}

RestoreInTurn ==
  \E a \in TurnRestores:
    IssueInTurn(RESTORE, a, <<>>, <<>>, <<>>, <<>>, <<>>, TRUE)

TurnNext ==
  \/ CreateInTurn
  \/ RenameInTurn
  \/ EditInTurn
  \/ DeleteInTurn
  \/ RestoreInTurn
  \/ \E t \in 1..MaxOps: ManagerBody(t)
  \/ \E t \in 1..MaxOps: Settle(t)
  \/ \E t \in 1..MaxOps: WakeSettled(t)
  \/ \E t \in 1..MaxOps: GetInfo(t)
  \/ Tick

TurnSpec == MgrInit /\ [][TurnNext]_vars

\* ------------------ manager-level model: restoreSkill of any string as name
\* An archive that also holds an entry without timestamp suffix.
TreePlain == [online |-> Put(<<>>, <<"a">>, SkillDir(<<"a">>)),
              archive |-> Put(Put(<<>>, Earlier(<<"a">>), SkillDir(<<"a">>)),
                              <<"b">>, SkillDir(<<"b">>)),
              root |-> TRUE]
PathTrees == InitialTrees \cup {TreePlain}

\* Strings a caller can pass as archivedName: names of entries, with and
\* without suffix, and strings with "..", "." and separators.
UpDir == <<".", ".", "/">>
RestorePaths ==
  {Earlier(<<"a">>), <<"b">>, <<>>, <<".">>, <<".", ".">>,
   UpDir \o <<"a">>,
   UpDir \o Earlier(<<"a">>),
   UpDir \o <<".", "a", "r", "c", "h", "i", "v", "e", "d">>,
   UpDir \o <<"o", "l", "d">>,
   UpDir \o <<"c", "u", "s", "t", "o", "m", "-", "a", "r", "c", "h", "i", "v", "e", "d", "/">>
         \o Earlier(<<"a">>),
   UpDir \o <<"s", "k", "i", "l", "l", "s", "/", "a">>,
   <<"/">> \o Earlier(<<"a">>),
   Earlier(<<"a">>) \o <<"/", ".">>,
   Earlier(<<"a">>) \o <<"/", "r", "e", "f", "e", "r", "e", "n", "c", "e", "s">>,
   <<"x", "/", ".", ".", "/">> \o Earlier(<<"a">>)}

RestoreAnyPath ==
  /\ calls = <<>>
  /\ \E s \in RestorePaths: Issue(RESTORE, s, <<>>, <<>>, <<>>, <<>>, <<>>, TRUE)

PathInit ==
  /\ queue = <<>>
  /\ processing = FALSE
  /\ tasks = <<>>
  /\ now = 1
  /\ calls = <<>>
  /\ fs \in PathTrees
  /\ archivedDir \in ArchivedDirs
  /\ ref = [fs |-> fs, out |-> <<>>, applied |-> <<>>]
  /\ mtime = InitialTimes(fs)
  /\ io = <<>>
  /\ snap = <<>>

PathNext ==
  \/ RestoreAnyPath
  \/ \E t \in 1..MaxCalls: ManagerBody(t)
  \/ \E t \in 1..MaxCalls: Settle(t)
  \/ \E t \in 1..MaxCalls: Wake(t)
  \/ Tick

PathSpec == PathInit /\ [][PathNext]_vars

\* ----------- manager-level model: four calls in turn that move directories
MaxTurns == 4        \* manager calls issued in one run of this model

\* A call of createSkill, renameSkill, deleteSkill or restoreSkill issued by
\* a caller that has awaited its earlier calls; restoreSkill is given the
\* name of an entry the archive holds.
MoveInTurn ==
  /\ Awaited
  /\ Len(calls) < MaxTurns
  /\ \E op \in {CREATE, RENAME, DELETE, RESTORE}:
       \E n \in (IF op = RESTORE THEN DOMAIN fs.archive ELSE Names):
         \E m \in (IF op = RENAME THEN Names ELSE {<<>>}):
           /\ enqueue(NewTask(op, 0, "manager"))
           /\ calls' = Append(calls,
                NewCall(op, n, m, IF op = CREATE THEN n ELSE <<>>,
                        IF op = CREATE THEN <<"d">> ELSE <<>>, <<>>, <<>>, TRUE))
  /\ UNCHANGED <<now, fs, archivedDir, ref, mtime, io, snap>>

MoveNext ==
  \/ MoveInTurn
  \/ \E t \in 1..MaxTurns: ManagerBody(t)
  \/ \E t \in 1..MaxTurns: Settle(t)
  \/ \E t \in 1..MaxTurns: WakeSettled(t)
  \/ \E t \in 1..MaxTurns: GetInfo(t)
  \/ Tick

MoveSpec == MgrInit /\ [][MoveNext]_vars

\* ================================================================ claims
\* Queue-level claims are checked under Spec or FairSpec, manager-level ones
\* under MgrSpec (calls issued without awaiting one another) or SeqSpec (a
\* caller that awaits every call, on the trees the constructor can find).

\* A drain loop is active for task t from the moment it dequeues t until it
\* has recorded t's outcome.
LoopsActive == {t \in TaskIds : tasks[t].bpc \notin {"none", "done"}}

\* C1: in every reachable state at most one task body is executing, and at
\* most one drain loop is active, whoever calls enqueue and whenever (from
\* outside while a task is in flight, back to back on an idle queue, from
\* inside a running body).
C1_AtMostOneBody ==
  /\ Executing(tasks) <= 1
  /\ Cardinality(LoopsActive) <= 1

\* A body is running, behind it wait a task enqueued from inside that body
\* and a task enqueued from outside.
C1_Witness ==
  \E t \in TaskIds:
    /\ BodyRunning(tasks, t)
    /\ \E i, j \in 1..Len(queue):
         tasks[queue[i]].by = t /\ tasks[queue[j]].by = 0

Started(tk, t) == t \in DOMAIN tk /\ tk[t].bpc # "none"

\* C2: task ids are handed out in the order of the enqueue calls.  Whenever a
\* body starts, every task enqueued earlier has settled (or was discarded by
\* clear) and no task enqueued later has started.
C2_Fifo ==
  [][\A t \in DOMAIN tasks':
       (~Started(tasks, t) /\ Started(tasks', t)) =>
         /\ \A u \in 1..(t - 1):
              Terminal(tasks'[u].status) \/ tasks'[u].discarded
         /\ \A u \in DOMAIN tasks': u > t => ~Started(tasks', u)]_vars

\* The first task has settled, the second is running, the third waits.
C2_Witness ==
  /\ Len(tasks) >= 3
  /\ Terminal(tasks[1].status)
  /\ tasks[2].status = PROCESSING
  /\ queue = <<3>>

C4_FailureHandled ==
  /\ [][\A t \in DOMAIN tasks:
          (tasks[t].bpc = "threw" /\ tasks'[t].bpc # "threw") =>
            /\ tasks'[t].status = FAILED
            /\ tasks'[t].error = tasks[t].thrown
            /\ tasks'[t].error # NoError
            /\ tasks'[t].completedAt = now
            /\ tasks'[t].bpc = "done"
            /\ t \notin Range(queue')
            /\ IF queue = <<>> THEN ~processing'
               ELSE /\ processing'
                    /\ queue' = Tail(queue)
                    /\ tasks'[Head(queue)].status = PROCESSING]_vars
  /\ [][\A t \in DOMAIN tasks: tasks[t].status = FAILED => tasks'[t] = tasks[t]]_vars
  /\ \A u \in 1..MaxTasks:
       (u \in Range(queue) /\ \E t \in TaskIds: tasks[t].status = FAILED)
         ~> (u \in TaskIds /\ (Started(tasks, u) \/ tasks[u].discarded))

\* A task failed and a task that was enqueued behind it has completed.
C4_Witness ==
  \E t, u \in TaskIds:
    /\ t < u
    /\ tasks[t].status = FAILED /\ tasks[t].error.msg \in ThrownValues
    /\ tasks[u].status = COMPLETED
    /\ tasks[u].startedAt >= tasks[t].completedAt

AllTerminal == \A t \in TaskIds: Terminal(tasks[t].status)

\* C5: every enqueued task eventually reaches COMPLETED or FAILED unless
\* clear() discards it, and whenever all tasks have settled the queue reports
\* length 0 and processing = false.
C5_Drains ==
  /\ \A t \in 1..MaxTasks:
       (t \in TaskIds)
         ~> (t \in TaskIds /\ (Terminal(tasks[t].status) \/ tasks[t].discarded))
  /\ [](AllTerminal =>
          getQueueStatus.length = 0 /\ getQueueStatus.processing = FALSE)

\* Several tasks were enqueued, none discarded, all have settled.
C5_Witness ==
  /\ Len(tasks) >= 2
  /\ AllTerminal
  /\ \A t \in TaskIds: ~tasks[t].discarded
  /\ getQueueStatus.length = 0 /\ ~getQueueStatus.processing

\* C9: a task clear() discarded is never executed and stays PENDING; the step
\* that discards tasks leaves the queue empty and every other task as it
\* was; the task that is PROCESSING still reaches COMPLETED or FAILED.
C9_Clear ==
  /\ [](\A t \in TaskIds:
          tasks[t].discarded =>
            /\ tasks[t].status = PENDING
            /\ tasks[t].bpc = "none"
            /\ tasks[t].startedAt = Unset
            /\ t \notin Range(queue))
  /\ [][(\E t \in DOMAIN tasks: ~tasks[t].discarded /\ tasks'[t].discarded) =>
          /\ getQueueStatus'.length = 0
          /\ processing' = processing
          /\ \A t \in DOMAIN tasks:
               tasks'[t] = tasks[t] \/ (t \in Range(queue) /\ tasks'[t].discarded)]_vars
  /\ \A t \in 1..MaxTasks:
       (t \in TaskIds /\ tasks[t].status = PROCESSING)
         ~> (t \in TaskIds /\ Terminal(tasks[t].status))

\* The first task was PROCESSING when clear() discarded the second, and has
\* completed since.
C9_Witness ==
  /\ Len(tasks) >= 2
  /\ tasks[1].status = COMPLETED
  /\ tasks[2].discarded /\ tasks[2].status = PENDING
  /\ getQueueStatus.length = 0

TimedOut(t) ==
  t \in DOMAIN calls /\ calls[t].cpc = "raised" /\ calls[t].raised = TimeoutError

CallOver(t) == t \in DOMAIN calls /\ calls[t].cpc \in {"returned", "raised"}

\* The caller of call t comes back from a sleep of waitForTask.
Woke(t) ==
  /\ calls[t].cpc = "sleep"
  /\ calls'[t].cpc # "sleep" \/ calls'[t].totalWaited # calls[t].totalWaited

\* C6: a call whose task is neither COMPLETED nor FAILED when the last sleep
\* the budget allows is over raises the timeout error, and only such a call
\* does; every sleep uses up pollInterval of a budget that is never
\* exceeded, so the call comes to an end after at most MaxPolls sleeps.  The
\* step that raises the timeout leaves the queue, the tasks and the trees
\* alone; the task of a timed-out call stays in the queue until it is
\* dequeued for execution, the drain loop stays active as long as a task has
\* not settled, and the task is marked COMPLETED or FAILED only when its
\* body has run to its end.
C6_Timeout ==
  /\ [][\A t \in DOMAIN calls:
          /\ (/\ Woke(t)
              /\ ~Terminal(tasks[t].status)
              /\ calls[t].totalWaited + pollInterval >= maxWaitTime)
               => /\ calls'[t].cpc = "raised"
                  /\ calls'[t].raised = TimeoutError
          /\ Woke(t) =>
               \/ calls'[t].cpc # "sleep"
               \/ calls'[t].totalWaited = calls[t].totalWaited + pollInterval
          /\ (~TimedOut(t) /\ calls'[t].cpc = "raised" /\ calls'[t].raised = TimeoutError)
               => /\ ~Terminal(tasks[t].status)
                  /\ calls[t].totalWaited + pollInterval >= maxWaitTime
                  /\ UNCHANGED <<queue, processing, tasks, fs>>
          /\ (TimedOut(t) /\ t \in Range(queue) /\ t \notin Range(queue'))
               => tasks'[t].status = PROCESSING /\ BodyRunning(tasks', t)
          /\ (TimedOut(t) /\ ~Terminal(tasks[t].status) /\ Terminal(tasks'[t].status))
               => tasks[t].bpc \in {"returned", "threw"}]_vars
  /\ [](\A t \in DOMAIN calls:
          /\ calls[t].totalWaited < maxWaitTime
          /\ (TimedOut(t) /\ ~Terminal(tasks[t].status))
               => /\ t \in Range(queue) \/ t \in LoopsActive
                  /\ LoopsActive # {}
                  /\ processing)

\* A createSkill call timed out while its task was waiting in the queue; the
\* task ran afterwards, completed, and the skill it created is there.
C6_Witness ==
  \E t \in DOMAIN calls:
    /\ TimedOut(t)
    /\ calls[t].op = CREATE
    /\ tasks[t].status = COMPLETED
    /\ tasks[t].startedAt > tasks[t].createdAt
    /\ DirExists(fs, OnlineLoc(calls[t].name))
    /\ SkillMd \in DOMAIN DirAt(fs, OnlineLoc(calls[t].name)).files

\* C7: a call raises an error thrown in a task body only if that body is the
\* body of its own task, the task is FAILED, and the error is the value the
\* body threw, as the queue recorded it; when the caller wakes up to a FAILED
\* task it raises that error, and a call whose task failed never returns
\* normally.
C7_Rethrow ==
  [][\A t \in DOMAIN calls:
       /\ (calls'[t].cpc = "raised" /\ calls'[t].raised.origin # 0)
            => /\ calls'[t].raised.origin = t
               /\ tasks'[t].status = FAILED
               /\ calls'[t].raised = tasks'[t].error
               /\ calls'[t].raised = tasks'[t].thrown
       /\ (Woke(t) /\ tasks[t].status = FAILED)
            => /\ calls'[t].cpc = "raised"
               /\ calls'[t].raised = tasks[t].thrown
               /\ calls'[t].raised # NoError
       /\ calls'[t].cpc \in {"getinfo", "returned"} => tasks'[t].status = COMPLETED]_vars

\* Two calls failed, each raised the error of its own task, and the two
\* errors differ.
C7_Witness ==
  \E t, u \in DOMAIN calls:
    /\ calls[t].cpc = "raised" /\ calls[t].raised.origin = t
    /\ calls[u].cpc = "raised" /\ calls[u].raised.origin = u
    /\ calls[t].raised.msg # calls[u].raised.msg

\* The bodies were run in issue order: the reference run has applied tasks
\* 1, 2, .. and every task that has settled is among them.
IssueOrder ==
  /\ ref.applied = [i \in 1..Len(ref.applied) |-> i]
  /\ \A t \in DOMAIN calls: Terminal(tasks[t].status) <=> t \in DOMAIN ref.out

\* Whenever no body is in flight the trees are those of the reference run,
\* and every settled task has the status and the error of the reference run.
TreesLinearized ==
  /\ IssueOrder
  /\ LoopsActive = {} => fs = ref.fs
  /\ \A t \in DOMAIN ref.out:
       /\ tasks[t].status = ref.out[t].status
       /\ tasks[t].error.msg = ref.out[t].msg

\* Every call that came to an end within its wait budget ended the way the
\* reference run lets it end.
CallsLinearized ==
  \A t \in DOMAIN calls:
    (CallOver(t) /\ ~TimedOut(t)) =>
      /\ t \in DOMAIN ref.out
      /\ calls[t].cpc \in ref.out[t].ends

\* C8: the trees, the outcome of every task and the success or failure of
\* every call are those of running the bodies one at a time, each to its
\* end, in the order the calls were issued.
C8_Linearized == TreesLinearized /\ CallsLinearized

\* A createSkill call raised within its budget although its task completed
\* and the reference run lets the call only return.
C8_Witness ==
  \E t \in DOMAIN calls:
    /\ calls[t].op = CREATE
    /\ calls[t].cpc = "raised" /\ ~TimedOut(t)
    /\ tasks[t].status = COMPLETED
    /\ t \in DOMAIN ref.out /\ ref.out[t].ends = {"returned"}
    /\ TreesLinearized

\* createSkill(n) has returned, deleteSkill(n) has returned, and no other
\* call was issued.
CreatedThenDeleted(n) ==
  /\ Len(calls) = 2
  /\ calls[1].op = CREATE /\ calls[1].name = n /\ calls[1].cpc = "returned"
  /\ calls[2].op = DELETE /\ calls[2].name = n /\ calls[2].cpc = "returned"

\* The entries of the archive root that listArchivedSkills attributes to n.
ArchivedEntriesOf(f, n) ==
  {e \in listArchivedSkills(f) : e.originalName = n}

\* n_<timestamp>Z, the timestamp in ISO form with '-' for ':' and '.'
IsArchiveNameOf(a, n) ==
  /\ Len(a) = Len(n) + 1 + Len(TimestampPatternMsZ)
  /\ SubSeq(a, 1, Len(n)) = n
  /\ a[Len(n) + 1] = "_"
  /\ MatchesPattern(SubSeq(a, Len(n) + 2, Len(a)), TimestampPatternMsZ)

\* The archive holds exactly one entry for n, under the name deleteSkill
\* gives it, and the entry is the directory createSkill made.
ArchivedOnce(f, n) ==
  /\ Cardinality(ArchivedEntriesOf(f, n)) = 1
  /\ \A e \in ArchivedEntriesOf(f, n):
       /\ IsArchiveNameOf(e.archivedName, n)
       /\ e.archivedName = ArchivedName(n, tasks[2].ctx.ts)
       /\ f.archive[e.archivedName] =
            [subdirs |-> SubDirs,
             files |-> Put(<<>>, SkillMd, generateSkillMd(n, calls[1].description))]
  /\ \A a \in DOMAIN f.archive: \E e \in ArchivedEntriesOf(f, n): e.archivedName = a

\* C10 without what listSkills returns: after createSkill(n) and
\* deleteSkill(n) have succeeded no directory n is left under the resources
\* root and the archive holds exactly one entry for n, the directory itself.
MovedToArchive ==
  \A n \in Names:
    CreatedThenDeleted(n) =>
      /\ ~DirExists(fs, OnlineLoc(n))
      /\ ArchivedOnce(fs, n)

\* C10: after createSkill(n) and deleteSkill(n) have succeeded, listSkills
\* does not return n, no directory n is left under the resources root, and
\* the archive holds exactly one entry for n, named n_<timestamp>Z: the
\* directory createSkill made, moved.
C10_Archived ==
  \A n \in Names:
    CreatedThenDeleted(n) =>
      /\ \A s \in listSkills(fs, archivedDir): s.name # n
      /\ ~DirExists(fs, OnlineLoc(n))
      /\ ArchivedOnce(fs, n)

\* createSkill(n) and deleteSkill(n) have succeeded with the archive root
\* in a custom directory inside the resources root.
C10_Witness ==
  \E n \in Names:
    /\ CreatedThenDeleted(n)
    /\ archivedDir = "inside"
    /\ ArchivedOnce(fs, n)

\* --- C11
\* The caller deleted n, awaited it, then restored the archive name that
\* deleteSkill produced, and both calls returned normally.
DeletedThenRestored(n) ==
  /\ Len(calls) = 2
  /\ calls[1].op = DELETE /\ calls[1].name = n /\ calls[1].cpc = "returned"
  /\ calls[2].op = RESTORE /\ calls[2].cpc = "returned"
  /\ calls[2].name = ArchivedName(n, tasks[1].ctx.ts)

ListedOnline(f, cfg, n) ==
  \E s \in listSkills(f, cfg): s.name = n /\ s.baseDir = OnlineLoc(n)

\* C11 as stated: after deleteSkill(n) and restoreSkill of the archive name
\* it produced, n is listed by listSkills under its original name and
\* listArchivedSkills has no entry whose originalName is n.
C11_RoundTrip ==
  \A n \in Names:
    DeletedThenRestored(n) =>
      /\ ListedOnline(fs, archivedDir, n)
      /\ \A e \in listArchivedSkills(fs): e.originalName # n

\* C11 amended: after deleteSkill(n) and restoreSkill of the archive name it
\* produced, n is listed by listSkills under its original name with the
\* content it had, and the archive entry deleteSkill made is gone; entries
\* archived earlier under the same original name may still be there.
C11_RoundTripOfEntry ==
  \A n \in Names:
    DeletedThenRestored(n) =>
      /\ ListedOnline(fs, archivedDir, n)
      /\ fs.online[n] = SkillDir(n)
      /\ ArchivedName(n, tasks[1].ctx.ts) \notin DOMAIN fs.archive

C11_Witness ==
  /\ DeletedThenRestored(<<"a">>)
  /\ ListedOnline(fs, archivedDir, <<"a">>)
  /\ Earlier(<<"a">>) \in DOMAIN fs.archive

\* --- C12
AlreadyExists == "Skill already exists"

\* The body of restore call t is about to check its target, the archive
\* entry it names exists, and so does a directory with the recovered name.
RestoreConflict(t) ==
  /\ t \in DOMAIN calls
  /\ calls[t].op = RESTORE
  /\ tasks[t].bpc = "s_check"
  /\ DirExists(fs, ArchiveLoc(calls[t].name))
  /\ DirExists(fs, OnlineLoc(StripTimestamp(calls[t].name)))

\* C12: restoreSkill of an archive entry whose recovered original name is a
\* directory under the resources root fails with "already exists"; the
\* archive entry and the online resource stay as they are, and the caller
\* gets that error unless its wait timed out first.
C12_RestoreRefused ==
  /\ [][\A t \in 1..MaxCalls:
          (RestoreConflict(t) /\ tasks'[t].bpc # tasks[t].bpc) =>
            /\ tasks'[t].bpc = "threw"
            /\ tasks'[t].thrown.msg = AlreadyExists
            /\ fs' = fs]_vars
  /\ [][\A t \in 1..MaxCalls:
          (t \in DOMAIN calls /\ calls[t].op = RESTORE
             /\ tasks[t].thrown.msg = AlreadyExists) =>
            tasks'[t].bpc \in {"threw", "done"}]_vars
  /\ [](\A t \in DOMAIN calls:
          (calls[t].op = RESTORE /\ tasks[t].thrown.msg = AlreadyExists
             /\ CallOver(t)) =>
            /\ calls[t].cpc = "raised"
            /\ calls[t].raised.msg \in {AlreadyExists, TimeoutError.msg}
            /\ tasks[t].status = FAILED => tasks[t].error.msg = AlreadyExists)

C12_Witness ==
  /\ Len(calls) = 1
  /\ calls[1].op = RESTORE
  /\ calls[1].name = Earlier(<<"a">>)
  /\ calls[1].cpc = "raised"
  /\ calls[1].raised.msg = AlreadyExists
  /\ fs = TreeBoth

\* --- C13
ArchivedExists == "Archived skill with name already exists"

\* The body of create call t is about to make its checks and the archive
\* lists an entry whose original name is the name to create.
CreateOfArchived(t) ==
  /\ t \in DOMAIN calls
  /\ calls[t].op = CREATE
  /\ tasks[t].bpc = "c_check"
  /\ \E e \in listArchivedSkills(fs): e.originalName = calls[t].name

EditLoadedArchived(t) ==
  /\ t \in DOMAIN calls
  /\ calls[t].op = EDIT
  /\ tasks[t].bpc = "e_check"
  /\ tasks'[t].bpc # "e_check"
  /\ tasks'[t].ctx.base.kind = "archive"

\* C14: getSkillInfo and getSkillFileTree of a name that loads a resource
\* under the archive root fail with their archived-specific errors, and
\* editSkillFile of such a name fails with "Cannot edit archived skill" and
\* changes nothing.
C14_ArchivedRefused ==
  /\ [](\A n \in Names:
          \A l \in Loads(fs, archivedDir, n):
            l.kind = "archive" =>
              /\ getSkillFileTree(fs, archivedDir, l).err =
                   "Cannot get file tree for archived skill"
              /\ \A l2 \in Loads(fs, archivedDir, n):
                   getSkillInfo(fs, archivedDir, l, l2).err =
                     "Cannot get info for archived skill")
  /\ [][\A t \in 1..MaxCalls:
          EditLoadedArchived(t) =>
            /\ tasks'[t].bpc = "threw"
            /\ tasks'[t].thrown.msg = "Cannot edit archived skill"
            /\ fs' = fs]_vars

\* editSkillFile returned normally after rewriting the manifest of an
\* archived resource.
C14_Witness ==
  /\ Len(calls) = 1
  /\ calls[1].op = EDIT
  /\ calls[1].cpc = "returned"
  /\ tasks[1].ctx.base = ArchiveLoc(Earlier(<<"a">>))
  /\ fs.archive[Earlier(<<"a">>)] # SkillDir(<<"a">>)

\* --- C15
\* C15: in every configuration of the archive root, listSkills returns no
\* resource whose baseDir is inside the archive root.
C15_OnlineOnly ==
  \A s \in listSkills(fs, archivedDir): s.baseDir.kind # "archive"

\* deleteSkill(b) returned and listSkills returns the directory it archived.
C15_Witness ==
  /\ Len(calls) = 2
  /\ calls[2].op = DELETE /\ calls[2].name = <<"b">> /\ calls[2].cpc = "returned"
  /\ \E s \in listSkills(fs, archivedDir):
       /\ s.name = <<"b">>
       /\ s.baseDir = ArchiveLoc(ArchivedName(<<"b">>, tasks[2].ctx.ts))

\* --- C16
\* Two deleteSkill calls returned, the first at an earlier instant than the
\* second, and both entries they made are in the archive.
ArchivedOneAfterTheOther ==
  /\ Len(calls) = 2
  /\ \A t \in {1, 2}: calls[t].op = DELETE /\ calls[t].cpc = "returned"
  /\ tasks[1].ctx.ts < tasks[2].ctx.ts
  /\ \A t \in {1, 2}:
       \E e \in listArchivedSkills(fs):
         e.archivedName = ArchivedName(calls[t].name, tasks[t].ctx.ts)

\* The place of the entry task t archived in the list r.
PlaceOf(r, t) ==
  CHOOSE i \in DOMAIN r:
    r[i].archivedName = ArchivedName(calls[t].name, tasks[t].ctx.ts)

\* C16: of two resources archived by deleteSkill at different instants, the
\* one archived later comes first in what listArchivedSkills returns.
C16_LatestFirst ==
  ArchivedOneAfterTheOther =>
    \A r \in listArchivedSkillsSorted(fs, mtime): PlaceOf(r, 2) < PlaceOf(r, 1)

\* b, changed after a, was archived first and a later: b is listed first.
C16_Witness ==
  /\ ArchivedOneAfterTheOther
  /\ calls[1].name = <<"b">> /\ calls[2].name = <<"a">>
  /\ \A r \in listArchivedSkillsSorted(fs, mtime): r[1].originalName = <<"b">>

\* --- C17
\* C17: for every valid name and both forms of the suffix, each directory
\* of the archive is accepted by the decoder of listArchivedSkills and by
\* the one of restoreSkill, both recover the name the resource was deleted
\* under, and a restored resource is back under exactly that name.
C17_RoundTrip ==
  /\ \A a \in DOMAIN fs.archive:
       /\ MatchArchivedName(a) # <<>>
       /\ MatchArchivedName(a)[1] = DirName(fs.archive[a])
       /\ StripTimestamp(a) = DirName(fs.archive[a])
       /\ StripTimestamp(a) # a
       /\ \E e \in listArchivedSkills(fs):
            e.archivedName = a /\ e.originalName = DirName(fs.archive[a])
  /\ \A d \in DOMAIN fs.online:
       DirName(fs.online[d]) = d /\ isValidSkillName(d)

\* A name ending in a timestamp-shaped suffix was deleted, then restored
\* from the archive name deleteSkill gave it.
C17_Witness ==
  /\ Len(calls) = 2
  /\ calls[1].op = DELETE /\ calls[1].cpc = "returned"
  /\ calls[1].name = LegacyName(<<"a">>)
  /\ calls[2].op = RESTORE /\ calls[2].cpc = "returned"
  /\ calls[2].name = ArchivedName(LegacyName(<<"a">>), tasks[1].ctx.ts)
  /\ LegacyName(<<"a">>) \in DOMAIN fs.online

\* --- C18
\* C18: a readFile, writeFile or createDir whose relative path normalizes to
\* one that starts with a parent segment or is absolute fails with an error
\* that says "outside", and no file was looked up, created or written.
C18_BoundaryFirst ==
  [][Len(io') > Len(io) =>
       LET e == io'[Len(io')] IN
       escapesBase(normalize(e.path)) =>
         /\ e.err = OutsideSandbox
         /\ e.at = NoLoc
         /\ e.read = <<>>
         /\ fs' = fs
         /\ mtime' = mtime]_vars

C18_Witness ==
  /\ Len(io) = 2
  /\ io[1].op = "readFile" /\ io[1].path = <<"..", "b", "SKILL.md">>
  /\ io[1].err = OutsideSandbox
  /\ io[2].op = "createDir" /\ io[2].path = <<"/", "etc", "passwd">>
  /\ io[2].err = OutsideSandbox
  /\ fs = TreeOnlineTwo

\* --- C19
\* From f to f2 nothing changed but the file np of the directory at base,
\* which now holds content, and the subdirectory leading to it.
OnlyFileWritten(f, f2, base, np, content) ==
  /\ Locs(f2) = Locs(f)
  /\ f2.root = f.root
  /\ \A l \in Locs(f): l # base => DirAt(f2, l) = DirAt(f, l)
  /\ base \in Locs(f)
  /\ DirAt(f2, base).files = Put(DirAt(f, base).files, np, content)
  /\ DirAt(f2, base).subdirs \in
       {DirAt(f, base).subdirs, DirAt(f, base).subdirs \cup {np[1]}}

\* C19: whatever the path and the flag, the trees change only when the body
\* of an editSkillFile writes, and then only in the file at the normalized
\* path inside the directory of the skill it loaded; a path that leaves that
\* directory or is absolute is refused with "Invalid file path" before the
\* write.
C19_WritesInside ==
  /\ [][fs' # fs =>
          \E t \in DOMAIN calls:
            /\ tasks[t].bpc = "e_write" /\ tasks'[t].bpc = "returned"
            /\ ~escapesBase(normalize(calls[t].path))
            /\ OnlyFileWritten(fs, fs', tasks[t].ctx.base,
                               normalize(calls[t].path), calls[t].content)]_vars
  /\ [][\A t \in 1..MaxCalls:
          (/\ t \in DOMAIN calls
           /\ tasks[t].bpc = "e_check" /\ tasks'[t].bpc # "e_check"
           /\ escapesBase(normalize(calls[t].path))) =>
            /\ tasks'[t].bpc = "threw"
            /\ tasks'[t].thrown.msg \in
                 {"Invalid file path", "Skill not found", "Cannot edit archived skill"}
            /\ tasks'[t].ctx.base.kind = "online" =>
                 tasks'[t].thrown.msg = "Invalid file path"
            /\ fs' = fs]_vars

\* A direct write inside the directory was made, and a direct write with a
\* path into the sibling directory was refused.
C19_Witness ==
  /\ Len(calls) = 2
  /\ calls[1].path = <<"references", "doc.md">> /\ ~calls[1].useSandbox
  /\ calls[1].cpc = "returned"
  /\ <<"references", "doc.md">> \in DOMAIN fs.online[calls[1].name].files
  /\ calls[2].path = <<"references", "..", "..", "b", "SKILL.md">>
  /\ ~calls[2].useSandbox
  /\ calls[2].cpc = "raised" /\ calls[2].raised.msg = "Invalid file path"
  /\ fs.online[<<"b">>] = SkillDir(<<"b">>)

\* --- C20
\* Tasks enqueued and neither dequeued nor dropped by clear().
Waiting == {t \in TaskIds : tasks[t].bpc = "none" /\ ~tasks[t].discarded}

\* C20: the object getQueueStatus returns holds the number of tasks waiting,
\* whether a drain loop is active, and the waiting tasks in order; changing
\* the returned list leaves the queue, its flag and its tasks as they are;
\* and no enqueue, dequeue or clear changes a list returned earlier.
C20_PointInTime ==
  /\ [][Len(snap') > Len(snap) =>
          LET sn == snap'[Len(snap')] IN
          /\ sn.length = Cardinality(Waiting)
          /\ sn.length = Len(queue)
          /\ sn.processing = (LoopsActive # {})
          /\ sn.tasks = queue
          /\ UNCHANGED <<queue, processing, tasks>>]_vars
  /\ [][\A i \in DOMAIN snap:
          snap'[i].edits # snap[i].edits =>
            UNCHANGED <<queue, processing, tasks>>]_vars
  /\ [][\A i \in DOMAIN snap:
          snap'[i].edits = snap[i].edits =>
            /\ (IF snap'[i].live THEN queue' ELSE snap'[i].tasks) = ListOf(snap[i])
            /\ snap'[i].length = snap[i].length
            /\ snap'[i].processing = snap[i].processing]_vars
  /\ [][queue' # queue =>
          \/ queue' = Append(queue, Len(tasks) + 1)
          \/ queue' = Tail(queue)
          \/ queue' = Tail(Append(queue, Len(tasks) + 1))
          \/ queue' = <<>>]_vars

\* A status object taken with two tasks waiting had its list reversed; a
\* task was dequeued since; the object still shows the reversed list.
C20_Witness ==
  /\ Len(snap) = 1
  /\ snap[1].length = 2 /\ snap[1].processing
  /\ snap[1].edits = 1
  /\ snap[1].tasks = <<3, 2>>
  /\ queue = <<3>>
  /\ tasks[2].status = PROCESSING

\* --- C21
\* path.join(<resourcesRoot>, '.archived')
DotArchived == skillsDir \o <<".archived">>

\* The directories fs.mkdir(dir, {recursive: true}) makes sure exist.
MadeBy(dir) == {SubSeq(dir, 1, i) : i \in 1..Len(dir)}

\* The body of delete call t moves its skill in this step.
Archiving(t) ==
  /\ t \in DOMAIN calls
  /\ calls[t].op = DELETE
  /\ tasks[t].bpc = "d_move" /\ tasks'[t].bpc = "returned"

\* C21: the step of deleteSkill that archives uses <resourcesRoot>/.archived
\* when the constructor got no archive directory and the given directory
\* otherwise; the skill directory is afterwards an entry of that archive
\* root, no directory is created under the resources root, and with a custom
\* directory <resourcesRoot>/.archived is not among the directories made.
C21_UnderConfiguredRoot ==
  [][\A t \in 1..MaxCalls:
       Archiving(t) =>
         LET x == tasks'[t].ctx
             a == ArchivedName(calls[t].name, x.ts)
         IN /\ x.dir = IF archivedDir = "default" THEN DotArchived
                       ELSE ArchivedDirArg(archivedDir)
            /\ fs'.root
            /\ a \in DOMAIN fs'.archive
            /\ fs'.archive[a] = DirAt(fs, x.base)
            /\ DOMAIN fs'.online \subseteq DOMAIN fs.online
            /\ archivedDir # "default" => DotArchived \notin MadeBy(x.dir)]_vars

\* deleteSkill(a) returned with a custom archive directory outside the
\* resources root: the entry is there, the directory made is the custom one.
C21_Witness ==
  /\ archivedDir = "outside"
  /\ Len(calls) = 1
  /\ calls[1].op = DELETE /\ calls[1].name = <<"a">> /\ calls[1].cpc = "returned"
  /\ tasks[1].ctx.dir = <<"/", "custom-archived">>
  /\ ArchivedName(<<"a">>, tasks[1].ctx.ts) \in DOMAIN fs.archive
  /\ fs.online = <<>>

\* --- C22
InvalidName == "Invalid skill name"

\* ^[A-Za-z0-9_-]+$ and length 1 to 50
WellFormedName(n) ==
  /\ Len(n) >= 1 /\ Len(n) <= 50
  /\ \A i \in 1..Len(n):
       n[i] \in Letters \cup Digits \cup {"_", "-"}
       /\ n[i] \notin {".", "/", "\\", " ", "\n"}

\* The body of create call t makes its checks in this step.
CreateChecks(t) ==
  /\ t \in DOMAIN calls
  /\ calls[t].op = CREATE
  /\ tasks[t].bpc = "c_check" /\ tasks'[t].bpc # "c_check"

\* C22: the checks of createSkill end with the invalid-name error exactly
\* when the name is not well formed, whatever the archive and the resources
\* root hold under that name, and then nothing is created; every directory
\* that appears under the resources root has the well-formed name of a
\* create call, a single path segment.
C22_NameValidated ==
  /\ [][\A t \in 1..MaxCalls:
          CreateChecks(t) =>
            IF WellFormedName(calls[t].name)
            THEN tasks'[t].thrown.msg # InvalidName
            ELSE /\ tasks'[t].bpc = "threw"
                 /\ tasks'[t].thrown.msg = InvalidName
                 /\ fs' = fs]_vars
  /\ [][\A d \in DOMAIN fs'.online \ DOMAIN fs.online:
          /\ WellFormedName(d)
          /\ \E t \in DOMAIN calls:
               calls[t].op = CREATE /\ calls[t].name = d /\ tasks[t].bpc = "c_mkdir"]_vars
  /\ [](\A t \in DOMAIN calls:
          (calls[t].op = CREATE /\ ~WellFormedName(calls[t].name) /\ CallOver(t)) =>
            /\ calls[t].cpc = "raised"
            /\ calls[t].raised.msg \in {InvalidName, TimeoutError.msg})

\* A name of 50 characters was created, then a.b was refused as invalid
\* although the archive holds an entry whose original name is a.b.
C22_Witness ==
  /\ Len(calls) = 2
  /\ calls[1].name = Repeat("a", 50) /\ calls[1].cpc = "returned"
  /\ Repeat("a", 50) \in DOMAIN fs.online
  /\ calls[2].name = <<"a", ".", "b">>
  /\ calls[2].cpc = "raised" /\ calls[2].raised.msg = InvalidName
  /\ \E e \in listArchivedSkills(fs): e.originalName = <<"a", ".", "b">>

\* --- C23
\* n is no directory under the resources root and the archive lists an
\* entry whose original name is n.
ArchivedOnly(f, n) ==
  /\ ~DirExists(f, OnlineLoc(n))
  /\ \E e \in listArchivedSkills(f): e.originalName = n

\* The first call is one of the operations ops on a name that existed only
\* archived when it was issued (until its task settles, ref.fs is the tree
\* the caller started on): while its body runs the trees stay as they were,
\* and the body does not return normally.
ArchivedUntouched(ops) ==
  (/\ Len(calls) = 1
   /\ ref.applied = <<>>
   /\ calls[1].op \in ops
   /\ ArchivedOnly(ref.fs, calls[1].name)) =>
    /\ fs = ref.fs
    /\ tasks[1].bpc # "returned"

\* The part of C23 about renameSkill.
RenameOfArchivedFails == ArchivedUntouched({RENAME})

\* C23: deleteSkill(n) and renameSkill(n, m) of a name n that exists only as
\* an archived entry fail, and the archived entry keeps its directory name
\* and its content.
C23_ArchivedUntouched == ArchivedUntouched({DELETE, RENAME})

\* deleteSkill(a) returned normally on a tree where a was archived only: the
\* entry a_<t0> is gone and the directory is archived again under a new name.
C23_Witness ==
  /\ archivedDir = "default"
  /\ Len(calls) = 1
  /\ calls[1].op = DELETE /\ calls[1].name = <<"a">> /\ calls[1].cpc = "returned"
  /\ tasks[1].ctx.base = ArchiveLoc(Earlier(<<"a">>))
  /\ Earlier(<<"a">>) \notin DOMAIN fs.archive
  /\ ArchivedName(<<"a">>, tasks[1].ctx.ts) \in DOMAIN fs.archive
  /\ fs.online = <<>>

\* --- C24
\* n is a directory under the resources root, or the name the manifest of
\* one declares.
OnlineNamed(f, n) ==
  \/ DirExists(f, OnlineLoc(n))
  \/ \E d \in DOMAIN f.online: DirName(f.online[d]) = n

\* The body of rename call t makes its checks in this step: the old name is
\* an online resource, the new name is valid and no online resource has it,
\* and the archive lists an entry whose original name is the new name.
RenameOntoArchived(t) ==
  /\ t \in DOMAIN calls
  /\ calls[t].op = RENAME
  /\ tasks[t].bpc = "r_check" /\ tasks'[t].bpc # "r_check"
  /\ DirExists(fs, OnlineLoc(calls[t].name))
  /\ DirName(fs.online[calls[t].name]) = calls[t].name
  /\ isValidSkillName(calls[t].newName)
  /\ ~OnlineNamed(fs, calls[t].newName)
  /\ \E e \in listArchivedSkills(fs):
       /\ e.originalName = calls[t].newName
       /\ DirName(fs.archive[e.archivedName]) = calls[t].newName

\* The body of call t, run from its first step on the trees as they are,
\* returns normally.
BodySucceeds(t) ==
  RunBody(fs, archivedDir, calls[t], EntryOf(calls[t].op), [ctx |-> NoCtx, err |-> ""],
          [NoCtx EXCEPT !.base = OnlineLoc(calls[t].name)]).pc = "returned"

\* C24 as stated: such a rename is not rejected and succeeds.
C24_ArchiveIgnored ==
  [][\A t \in 1..MaxCalls:
       RenameOntoArchived(t) =>
         /\ tasks'[t].bpc = "r_move"
         /\ BodySucceeds(t)]_vars

\* C24 amended: such a rename is not rejected and succeeds when the archive
\* root lies outside the resources root; when it lies inside, as the default
\* .archived does, the lookup of the new name finds the archived resource
\* and the rename fails with "already exists", changing nothing.
C24_ArchiveSeenByLookup ==
  [][\A t \in 1..MaxCalls:
       RenameOntoArchived(t) =>
         IF archivedDir = "outside"
         THEN /\ tasks'[t].bpc = "r_move"
              /\ BodySucceeds(t)
         ELSE /\ tasks'[t].bpc = "threw"
              /\ tasks'[t].thrown.msg = AlreadyExists
              /\ fs' = fs]_vars

\* renameSkill(b, a) was refused with the default archive root, a being
\* archived and not online.
C24_Witness ==
  /\ archivedDir = "default"
  /\ Len(calls) = 1
  /\ calls[1].op = RENAME /\ calls[1].name = <<"b">> /\ calls[1].newName = <<"a">>
  /\ calls[1].cpc = "raised" /\ calls[1].raised.msg = AlreadyExists
  /\ fs = TreeOther

\* --- C25
\* The messages of the errors the checks of the task bodies raise.
ValidationErrors ==
  {"Invalid skill name", "Invalid file path", "Skill not found",
   "Archived skill not found", "Skill already exists",
   "Archived skill with name already exists", "Cannot edit archived skill"}

\* The body of call t throws in this step.
Throws(t) ==
  /\ t \in DOMAIN calls
  /\ tasks[t].bpc # "threw" /\ tasks'[t].bpc = "threw"

\* C25: a body throws one of the validation errors only in its first step,
\* before it has changed anything, and that step leaves the online tree, the
\* archive tree and the modification times exactly as they were.
C25_ValidationFirst ==
  [][\A t \in 1..MaxCalls:
       (Throws(t) /\ tasks'[t].thrown.msg \in ValidationErrors) =>
         /\ tasks[t].bpc = EntryOf(calls[t].op)
         /\ fs' = fs
         /\ mtime' = mtime
         /\ fs = ref.fs]_vars

\* Witness: a restore was refused because the name is taken online, and the
\* trees are the ones the call started on.
C25_Witness ==
  /\ Len(calls) = 1
  /\ calls[1].op = RESTORE
  /\ tasks[1].bpc = "threw"
  /\ tasks[1].thrown.msg = "Skill already exists"
  /\ ref.applied = <<>>
  /\ fs = ref.fs

\* --- C26
\* The body of call t, a rename, rewrites the manifest in this step.
Patches(t) ==
  /\ t \in DOMAIN calls
  /\ calls[t].op = RENAME
  /\ tasks[t].bpc = "r_patch" /\ tasks'[t].bpc = "returned"

\* m2 is m with line i, a name line, reading 'name: n' and nothing else
\* changed.
OnlyLineChanged(m, m2, i, n) ==
  /\ Len(m2) = Len(m)
  /\ m[i].k = "name"
  /\ m2[i] = NameLine(n)
  /\ \A j \in 1..Len(m): j # i => m2[j] = m[j]

\* The manifest the directory n holds in tree f.
ManifestOf(f, n) == DirAt(f, OnlineLoc(n)).files[SkillMd]

\* C26: the patch of a successful rename changes the manifest in its name
\* line only, which then reads 'name: new'; every other line is kept.
C26_OnlyNameLine ==
  [][\A t \in 1..MaxCalls:
       Patches(t) =>
         \E i \in 1..Len(ManifestOf(fs, calls[t].newName)):
           OnlyLineChanged(ManifestOf(fs, calls[t].newName),
                           ManifestOf(fs', calls[t].newName), i, calls[t].newName)]_vars

\* The same for the manifests whose front matter holds a name line with a
\* value: that line is the one rewritten.
PatchOfNamedManifest ==
  [][\A t \in 1..MaxCalls:
       (Patches(t) /\ ManifestName(ManifestOf(fs, calls[t].newName)) # NoName) =>
         \E i \in 2..(FrontMatterEnd(ManifestOf(fs, calls[t].newName)) - 1):
           OnlyLineChanged(ManifestOf(fs, calls[t].newName),
                           ManifestOf(fs', calls[t].newName), i, calls[t].newName)]_vars

\* Witness: a was renamed to c and the manifest, whose name line had no
\* value, has lost its description line.
C26_Witness ==
  /\ Len(calls) = 1
  /\ calls[1].op = RENAME /\ calls[1].name = <<"a">> /\ calls[1].newName = <<"c">>
  /\ tasks[1].bpc = "returned"
  /\ ref.applied = <<>>
  /\ ManifestOf(ref.fs, <<"a">>)[2] = NameLine(<<>>)
  /\ ManifestOf(fs, <<"c">>) = <<Fence, NameLine(<<"c">>), Fence, TextLine(<<"a">>)>>

\* --- C27
\* Every directory under the resources root holds a manifest that declares
\* the directory's name.
NamesAgree(f) == \A d \in DOMAIN f.online: DirName(f.online[d]) = d

\* Directory d2 holds what d held, up to the content of the manifest.
SameFiles(d, d2) ==
  /\ d2.subdirs = d.subdirs
  /\ DOMAIN d2.files = DOMAIN d.files
  /\ \A p \in DOMAIN d.files: p # SkillMd => d2.files[p] = d.files[p]

\* Tree f2 is tree f with the directory old under the name new.
Renamed(f, f2, old, new) ==
  /\ old \notin DOMAIN f2.online
  /\ DOMAIN f2.online = (DOMAIN f.online \ {old}) \cup {new}
  /\ SameFiles(f.online[old], f2.online[new])
  /\ \A d \in DOMAIN f.online \ {old}: f2.online[d] = f.online[d]
  /\ f2.archive = f.archive

\* The first call, a rename on the tree f0, has done what a rename is to do:
\* if it succeeded, f is f0 with the directory under its new name; a rename
\* of a directory of f0 to its own name fails with 'Skill already exists' and
\* changes nothing.
RenameDone(f0, f) ==
  (Len(calls) = 1 /\ calls[1].op = RENAME /\ ref.applied = <<>>) =>
    /\ tasks[1].bpc = "returned" =>
         /\ calls[1].name # calls[1].newName
         /\ calls[1].name \in DOMAIN f0.online
         /\ Renamed(f0, f, calls[1].name, calls[1].newName)
    /\ (calls[1].name = calls[1].newName /\ calls[1].name \in DOMAIN f0.online) =>
         /\ f = f0
         /\ tasks[1].bpc \notin {"r_move", "r_patch", "returned"}
         /\ tasks[1].bpc = "threw" => tasks[1].thrown.msg = "Skill already exists"

\* C27: a successful rename leaves no resource under the old name, one under
\* the new name with the old one's files, and everything else as it was; a
\* rename of a resource to its own name fails with an already-exists
\* conflict and changes nothing.
C27_Renamed == RenameDone(ref.fs, fs)

\* The same on the trees in which every manifest declares the name of its
\* directory.
RenamedWhenNamesAgree == NamesAgree(ref.fs) => RenameDone(ref.fs, fs)

\* Witness: the directory b, whose manifest declares the name a, was to be
\* renamed to b and the call found no such skill.
C27_Witness ==
  /\ Len(calls) = 1
  /\ calls[1].op = RENAME /\ calls[1].name = <<"b">> /\ calls[1].newName = <<"b">>
  /\ <<"b">> \in DOMAIN fs.online
  /\ DirName(fs.online[<<"b">>]) = <<"a">>
  /\ tasks[1].bpc = "threw"
  /\ tasks[1].thrown.msg = "Skill not found"

\* --- C28
\* C28: a deleteFile whose relative path normalizes to one that starts with
\* a parent segment or is absolute fails with an error that says "outside"
\* and no file was looked up; and no deleteFile changes a directory other
\* than its baseDir.
C28_DeleteBoundary ==
  [][(Len(io') > Len(io) /\ io'[Len(io')].op = "deleteFile") =>
       LET e == io'[Len(io')] IN
       /\ escapesBase(normalize(e.path)) =>
            /\ e.err = OutsideSandbox
            /\ e.at = NoLoc
            /\ fs' = fs
       /\ \A l \in Locs(fs): l # e.base => l \in Locs(fs') /\ DirAt(fs', l) = DirAt(fs, l)]_vars

\* A deleteFile whose path stays inside baseDir changes nothing but baseDir.
DeleteInsideStays ==
  [][(Len(io') > Len(io) /\ io'[Len(io')].op = "deleteFile") =>
       LET e == io'[Len(io')] IN
       ~escapesBase(normalize(e.path)) =>
         /\ e.at = e.base
         /\ \A l \in Locs(fs): l # e.base => l \in Locs(fs') /\ DirAt(fs', l) = DirAt(fs, l)]_vars

\* Witness: deleteFile on the directory a with the path ../b/SKILL.md
\* returned without an error and the manifest of b is gone.
C28_Witness ==
  /\ Len(io) = 1
  /\ io[1].op = "deleteFile"
  /\ io[1].base = OnlineLoc(<<"a">>)
  /\ io[1].path = <<"..", "b", "SKILL.md">>
  /\ io[1].err = ""
  /\ SkillMd \notin DOMAIN fs.online[<<"b">>].files

\* --- C29
\* C29: once the body of a createSkill(name, options) has returned, the
\* directory name holds a manifest that declares the name name.
C29_ManifestNamesDirectory ==
  \A t \in DOMAIN calls:
    (calls[t].op = CREATE /\ tasks[t].bpc = "returned") =>
      /\ calls[t].name \in DOMAIN fs.online
      /\ DirName(fs.online[calls[t].name]) = calls[t].name

\* The same for the calls whose options.name is the name they create.
ManifestNamedAsAsked ==
  \A t \in DOMAIN calls:
    (calls[t].op = CREATE /\ tasks[t].bpc = "returned"
       /\ calls[t].optName = calls[t].name) =>
      /\ calls[t].name \in DOMAIN fs.online
      /\ DirName(fs.online[calls[t].name]) = calls[t].name

\* Witness: createSkill('b', {name: 'a'}) returned to its caller, which read
\* back the directory c that createSkill('c', {name: 'b'}) made in between,
\* and the manifest of the directory b declares the name a.
C29_Witness ==
  /\ Len(calls) = 2
  /\ calls[1].op = CREATE /\ calls[1].name = <<"b">> /\ calls[1].optName = <<"a">>
  /\ calls[1].cpc = "returned"
  /\ DirName(fs.online[<<"b">>]) = <<"a">>
  /\ calls[2].name = <<"c">> /\ calls[2].optName = <<"b">>
  /\ DirName(fs.online[<<"c">>]) = <<"b">>

\* --- C30
\* C30: a step in which a read-only operation of the manager completes
\* leaves the pending sequence, the processing flag, the tasks, the calls
\* that wait and the trees as they were.
C30_ReadsBypassQueue ==
  [][Len(io') > Len(io) =>
       /\ queue' = queue
       /\ processing' = processing
       /\ tasks' = tasks
       /\ calls' = calls
       /\ fs' = fs]_vars

\* Every read-only operation can be completed in every state, whatever the
\* queue holds.
ReadsNeverWait ==
  Len(io) < MaxReads =>
    /\ ENABLED ListSkills
    /\ ENABLED GetSkillInfo
    /\ ENABLED ListArchivedSkills
    /\ ENABLED GetSkillFileTree
    /\ ENABLED ManagerQueueStatus

\* Witness: getSkillInfo completed while one task was PROCESSING and another
\* PENDING in the queue, and both are still where they were.
C30_Witness ==
  /\ Len(io) = 1
  /\ io[1].op = "getSkillInfo"
  /\ io[1].processing /\ io[1].pending = 1
  /\ processing /\ Len(queue) = 1
  /\ Len(tasks) = 2
  /\ tasks[1].status = PROCESSING /\ tasks[2].status = PENDING

\* --- C31
\* A task joins the tasks in this step: enqueue was called and has returned.
EnqueueReturns == Len(tasks') > Len(tasks)

\* C31: when enqueue returns, the task it added is PENDING or PROCESSING and
\* its body has not finished, so enqueue did not wait for it; and if no drain
\* loop was active when enqueue was called, one is active when it returns.
C31_EnqueueDoesNotWait ==
  [][EnqueueReturns =>
       /\ Len(tasks') = Len(tasks) + 1
       /\ tasks'[Len(tasks')].status \in {PENDING, PROCESSING}
       /\ tasks'[Len(tasks')].bpc \in {"none", "run"}
       /\ tasks'[Len(tasks')].completedAt = Unset
       /\ ~processing => processing' /\ getQueueStatus'.processing]_vars

\* Witness: two more enqueues have returned while the body of the first task,
\* started by its own enqueue, is still running.
C31_Witness ==
  /\ Len(tasks) = 3
  /\ tasks[1].status = PROCESSING /\ tasks[1].bpc = "run"
  /\ tasks[2].status = PENDING /\ tasks[3].status = PENDING
  /\ tasks[2].by = 0
  /\ processing
  /\ queue = <<2, 3>>

\* --- C32
\* The bookkeeping of task record r agrees with its status.
Consistent(r) ==
  /\ r.startedAt # Unset <=> r.status \in {PROCESSING, COMPLETED, FAILED}
  /\ r.completedAt # Unset <=> r.status \in {COMPLETED, FAILED}
  /\ r.error # NoError => r.status = FAILED

\* C32 as stated: in every state, startedAt is set exactly when the status is
\* PROCESSING, COMPLETED or FAILED, completedAt exactly when it is COMPLETED
\* or FAILED, and error only when it is FAILED.
C32_Bookkeeping == \A t \in TaskIds: Consistent(tasks[t])

\* C32, amended: the same for every task object that enqueue was called with
\* once.
C32_BookkeepingOfFreshTasks ==
  \A t \in TaskIds: tasks[t].enqueued = 1 => Consistent(tasks[t])

\* Witness: of three tasks enqueued once each, one is PENDING, one PROCESSING
\* and one FAILED with its error kept, and a task enqueued a second time is
\* PROCESSING with the completedAt of its first run.
C32_Witness ==
  /\ Len(tasks) = 3
  /\ \E a, b, c \in TaskIds:
       /\ tasks[a].enqueued = 1 /\ tasks[a].status = FAILED
       /\ tasks[a].error # NoError /\ tasks[a].completedAt # Unset
       /\ tasks[b].enqueued = 1 /\ tasks[b].status = PENDING
       /\ tasks[b].startedAt = Unset
       /\ tasks[c].enqueued = 2 /\ tasks[c].status = PROCESSING
       /\ tasks[c].completedAt # Unset

\* --- C33
\* The immediate subdirectories of the archive root that hold a manifest and
\* whose name is <originalName>_<encodedTimestamp>Z; none if the root does
\* not exist.
ArchivedDirectories(f) ==
  IF ~f.root THEN {}
  ELSE {x \in DOMAIN f.archive :
          /\ isDirectory(f.archive[x])
          /\ SkillMd \in DOMAIN f.archive[x].files
          /\ \E i \in 2..Len(x):
               x[i] = "_" /\ IsEncodedTimestamp(SubSeq(x, i + 1, Len(x)))}

\* The list l names each of the entries xs once and nothing else.
ListsExactly(l, xs) ==
  /\ {l[i].archivedName : i \in 1..Len(l)} = xs
  /\ Len(l) = Cardinality(xs)

\* C33: what listArchivedSkills returned names exactly the subdirectories of
\* the archive root that hold a manifest and match the pattern.
C33_ListsArchivedDirectories ==
  \A i \in DOMAIN io:
    io[i].op = "listArchivedSkills" => ListsExactly(io[i].out, ArchivedDirectories(fs))

\* The same when the timestamp of every such subdirectory is a date.
ListsArchivedWhenDatesValid ==
  (\A x \in ArchivedDirectories(fs): IsValidDate(MatchArchivedName(x)[2])) =>
    \A i \in DOMAIN io:
      io[i].op = "listArchivedSkills" => ListsExactly(io[i].out, ArchivedDirectories(fs))

\* Witness: the archive root holds the archived skill a and a directory whose
\* timestamp has the month 13, and listArchivedSkills returned the empty
\* list.
C33_Witness ==
  /\ Len(io) = 1
  /\ io[1].op = "listArchivedSkills"
  /\ io[1].out = <<>>
  /\ DOMAIN fs.archive = {Earlier(<<"a">>), <<"b", "_">> \o BadStamp}

\* --- C34
\* C34: in every state between two asynchronous steps, if the processing
\* flag is false the pending sequence is empty.
C34_NoStrandedWork == ~processing => queue = <<>>

\* Witness: three tasks were enqueued, one of them while another was running;
\* one was discarded by clear(), the others have settled, and the drain loop
\* has ended with nothing left in the queue.
C34_Witness ==
  /\ Len(tasks) = 3
  /\ ~processing /\ queue = <<>>
  /\ \E t \in TaskIds: tasks[t].discarded
  /\ \E t \in TaskIds: tasks[t].status = COMPLETED
  /\ \E t \in TaskIds: tasks[t].status = FAILED

\* --- C35
InProcess == {t \in TaskIds : tasks[t].status = PROCESSING}

EnqueuedOnce == \A t \in TaskIds: tasks[t].enqueued = 1

FlagMatchesStatus ==
  /\ processing <=> Cardinality(InProcess) = 1
  /\ \A i \in 1..Len(queue): tasks[queue[i]].status = PENDING

\* C35: when every task object was enqueued once with status PENDING, the
\* processing flag is true exactly when one task taken from the queue has
\* status PROCESSING, and every task waiting in the queue has status PENDING.
C35_FlagMatchesStatus == EnqueuedOnce => FlagMatchesStatus

\* Witness: the flag is set, one task is PROCESSING, another has settled and
\* one waits behind it, all of them enqueued once.
C35_Witness ==
  /\ EnqueuedOnce
  /\ processing /\ Cardinality(InProcess) = 1
  /\ Len(queue) = 1
  /\ \E t \in TaskIds: Terminal(tasks[t].status)

\* --- C36
\* C36: a createSkill call whose task reached COMPLETED within the wait
\* budget does not raise, whatever other calls were issued beside it: a
\* createSkill call that raised has not created a skill.
C36_CompletedCreateReturns ==
  \A t \in DOMAIN calls:
    (calls[t].op = CREATE /\ calls[t].cpc = "raised" /\ ~TimedOut(t))
      => tasks[t].status # COMPLETED

\* createSkill(n, {name: n}) on an empty tree with deleteSkill(n) enqueued
\* right behind it: both tasks completed, the skill was created and then
\* archived, and the createSkill call raised within its budget.
C36_Witness ==
  \E n \in Names:
    /\ Len(calls) = 2
    /\ calls[1].op = CREATE /\ calls[1].name = n /\ calls[1].optName = n
    /\ calls[2].op = DELETE /\ calls[2].name = n
    /\ tasks[1].status = COMPLETED /\ tasks[2].status = COMPLETED
    /\ calls[1].cpc = "raised" /\ ~TimedOut(1)
    /\ calls[2].cpc = "returned"
    /\ fs.online = <<>> /\ \E a \in DOMAIN fs.archive: StripTimestamp(a) = n

\* --- C37
\* The calls issued so far are createSkill calls of one name, two or more.
SameCreates(cs) ==
  /\ Len(cs) >= 2
  /\ \A t \in DOMAIN cs: cs[t].op = CREATE /\ cs[t].name = cs[1].name

\* The messages of an already-exists conflict: the manager's own, and that
\* of mkdir on a directory that exists ("EEXIST: file already exists").
ConflictMessages == {"Skill already exists", "EEXIST"}

\* The tree holds the skill of call c and nothing else.
CreatedOnce(f, c) ==
  /\ DOMAIN f.online = {c.name}
  /\ f.online[c.name].subdirs = SubDirs
  /\ f.online[c.name].files =
       Put(<<>>, SkillMd, generateSkillMd(c.optName, c.description))
  /\ DOMAIN f.archive = {}

OneCreateWins(tk, cs, f) ==
  /\ \A u \in DOMAIN cs:
       Terminal(tk[u].status) =>
         IF u = 1 THEN tk[u].status = COMPLETED
         ELSE tk[u].status = FAILED /\ tk[u].error.msg \in ConflictMessages
  /\ tk[1].status = COMPLETED => CreatedOnce(f, cs[1])

\* C37: of two or more concurrent createSkill calls with one valid name
\* that exists neither online nor archived, one task completes and creates the
\* skill once; every other task fails with an already-exists conflict, and
\* no step of its body changes the tree.
C37_OneCreateWins ==
  [][SameCreates(calls') =>
       /\ OneCreateWins(tasks', calls', fs')
       /\ \A u \in DOMAIN calls:
            (u > 1 /\ tasks'[u].bpc # tasks[u].bpc) => fs' = fs]_vars

\* Witness: both tasks have settled, the first COMPLETED, the second FAILED
\* with the manager's conflict error, and the tree holds the one skill.
C37_Witness ==
  /\ SameCreates(calls)
  /\ calls[1].optName = calls[1].name
  /\ tasks[1].status = COMPLETED
  /\ tasks[2].status = FAILED /\ tasks[2].error.msg = "Skill already exists"
  /\ CreatedOnce(fs, calls[1])

\* --- C38
\* The resource directories of a tree: the skills online and the entries of
\* the archive.
Resources(f) == Cardinality(DOMAIN f.online) + Cardinality(DOMAIN f.archive)

CompletedCreates(tk, cs) ==
  Cardinality({t \in DOMAIN cs : cs[t].op = CREATE /\ tk[t].status = COMPLETED})

\* C38: starting from an empty tree, whenever no body is in flight the number
\* of resource directories, online and archived, is the number of createSkill
\* tasks that completed, and no step lowers that number.
C38_Conserved ==
  [][/\ LoopsActive' = {} => Resources(fs') = CompletedCreates(tasks', calls')
     /\ Resources(fs') >= Resources(fs)]_vars

\* createSkill(a) and restoreSkill('../a') were awaited in turn and both
\* completed: one createSkill task completed and neither tree holds a
\* directory.
C38_Witness ==
  /\ Len(calls) = 2 /\ Awaited
  /\ calls[1].op = CREATE /\ calls[1].name = <<"a">>
  /\ calls[2].op = RESTORE /\ calls[2].name = <<".", ".", "/", "a">>
  /\ \A t \in DOMAIN calls: tasks[t].status = COMPLETED
  /\ Resources(fs) = 0
  /\ CompletedCreates(tasks, calls) = 1

\* --- C39
\* Tree f2 is tree f with archive entry a moved to the skill directory n,
\* which f does not hold.
EntryRestored(f, f2, a, n) ==
  /\ a \in DOMAIN f.archive
  /\ n \notin DOMAIN f.online
  /\ f2 = PutDir(RemoveDir(f, ArchiveLoc(a)), OnlineLoc(n), f.archive[a])

\* C39: whatever string restoreSkill is given as archivedName, it fails and
\* leaves the trees alone, or it moves one immediate child of the archive root
\* to an immediate child of the resources root; no other directory is moved
\* and none leaves the resources root.
C39_RestoreStaysInside ==
  [][fs' # fs =>
       \E a \in DOMAIN fs.archive: \E n \in DOMAIN fs'.online:
         EntryRestored(fs, fs', a, n)]_vars

\* restoreSkill('../a') with the archive root at its default place has
\* completed: the online skill a is gone from the resources root, and no
\* archive entry was restored.
C39_Witness ==
  /\ Len(calls) = 1
  /\ calls[1].op = RESTORE /\ calls[1].name = UpDir \o <<"a">>
  /\ archivedDir = "default"
  /\ tasks[1].status = COMPLETED
  /\ <<"a">> \notin DOMAIN fs.online
  /\ <<"a">> \in DOMAIN ref.fs.online \/ ref.applied # <<>>
  /\ Earlier(<<"a">>) \in DOMAIN fs.archive

\* Every rename the bodies ask for is one the disk model covers.
RenamesModelled ==
  \A t \in TaskIds: tasks[t].thrown.msg # NotModelled

\* --- C40
OriginalNames(f) == {x.originalName : x \in listArchivedSkills(f)}

\* C40: starting from an empty tree, after any sequence of createSkill,
\* renameSkill, deleteSkill and restoreSkill calls no name is the name of an
\* online skill and the original name of an archived entry, and no two
\* entries of the archive have the same original name.
C40_NamespacesDisjoint ==
  LoopsActive = {} =>
    /\ DOMAIN fs.online \cap OriginalNames(fs) = {}
    /\ \A x, y \in listArchivedSkills(fs):
         x.originalName = y.originalName => x = y

\* createSkill(a), deleteSkill(a), createSkill(b) and renameSkill(b, a) were
\* awaited in turn and all completed, with the archive root outside the
\* resources root: a is online and is the original name of an archive entry.
C40_Witness ==
  /\ Len(calls) = 4 /\ Awaited
  /\ archivedDir = "outside"
  /\ calls[1].op = CREATE /\ calls[1].name = <<"a">>
  /\ calls[2].op = DELETE /\ calls[2].name = <<"a">>
  /\ calls[3].op = CREATE /\ calls[3].name = <<"b">>
  /\ calls[4].op = RENAME /\ calls[4].name = <<"b">> /\ calls[4].newName = <<"a">>
  /\ \A t \in DOMAIN calls: tasks[t].status = COMPLETED
  /\ <<"a">> \in DOMAIN fs.online
  /\ <<"a">> \in OriginalNames(fs)

====
